---- MODULE Spec2Model ----
(***************************************************************************)
(* Tank-battle game (src/ftg.py): the GameState, the command objects, the  *)
(* turn loop of PlayGameMode and the mode switching of UserInterface.      *)
(*                                                                         *)
(* Coordinates.  pygame's Vector2 holds floating-point numbers.  Here a    *)
(* coordinate is an integer number of 1/Scale cells (fixed point): unit    *)
(* positions are whole cells (multiples of Scale), a bullet advances by    *)
(* bulletSpeed = Scale/10 times the normalised direction, rounded to the   *)
(* nearest 1/Scale.  int() is truncation toward zero (Trunc).              *)
(***************************************************************************)
EXTENDS Integers, Sequences, FiniteSets, TLC

\* ------------------------------------------------------------------------
\* Bounds of the exploration
\* ------------------------------------------------------------------------

\* ticks are explored while epoch < MaxEpoch
MaxEpoch == 9

\* the long flights: ticks are explored while epoch < MaxFlightEpoch
MaxFlightEpoch == 50

\* the long flights: clicks are explored in the frames with epoch <= MaxClickEpoch
MaxClickEpoch == 7

\* the duel: ticks are explored while epoch < MaxDuelEpoch
MaxDuelEpoch == 42

\* ------------------------------------------------------------------------
\* Program constants
\* ------------------------------------------------------------------------

\* resolution of the fixed-point coordinates (1 cell = Scale)
Scale == 10 * 100

\* GameState.bulletSpeed = 0.1 cell per tick
bulletSpeed == Scale \div 10

\* GameState.bulletRange = 4 cells
bulletRange == 4

\* GameState.bulletDelay = 5 ticks
bulletDelay == 5

\* Unit.lastBulletEpoch of a new unit
InitialLastBulletEpoch == -100

\* PlayGameMode.cellSize = Vector2(64, 64); never changed by a level load
cellWidth == 64

cellHeight == 64

\* the five layers PlayGameMode registers as observers, in this order
NumObservers == 5

\* ------------------------------------------------------------------------
\* Vector2 arithmetic
\* ------------------------------------------------------------------------

Abs(n) == IF n < 0 THEN -n ELSE n

Sign(n) == IF n < 0 THEN -1 ELSE IF n > 0 THEN 1 ELSE 0

VAdd(a, b) == <<a[1] + b[1], a[2] + b[2]>>

VSub(a, b) == <<a[1] - b[1], a[2] - b[2]>>

\* a whole-cell vector in fixed point
Cell(x, y) == <<x * Scale, y * Scale>>

\* int(): truncation toward zero of a fixed-point coordinate, in cells
Trunc(v) == Sign(v) * (Abs(v) \div Scale)

\* the element of a set of one element; {F(x) : x \in {v}} computes v once
\* however often F uses it
Only(S) == CHOOSE x \in S : TRUE

\* floor of the square root, by bisection on lo..hi
RECURSIVE SqrtBetween(_, _, _)
SqrtBetween(n, lo, hi) ==
    IF lo >= hi THEN lo
    ELSE LET Half(mid) == IF mid * mid <= n THEN SqrtBetween(n, mid, hi)
                                             ELSE SqrtBetween(n, lo, mid - 1)
         IN Only({Half(mid) : mid \in {(lo + hi + 1) \div 2}})

ISqrt(n) == SqrtBetween(n, 0, 46340)

\* Vector2.length()
VLength(v) == ISqrt(v[1] * v[1] + v[2] * v[2])

\* squared distance, used for Vector2.distance_to comparisons
DistSq(a, b) == (a[1] - b[1]) * (a[1] - b[1]) + (a[2] - b[2]) * (a[2] - b[2])

\* a / b rounded to nearest, b > 0
RoundDiv(a, b) == Sign(a) * ((2 * Abs(a) + b) \div (2 * b))

\* bulletSpeed * v.normalize(), for v of non-zero length
SpeedTimesNormalized(v) ==
    LET Scaled(len) ==
            <<RoundDiv(bulletSpeed * v[1], len), RoundDiv(bulletSpeed * v[2], len)>>
    IN Only({Scaled(len) : len \in {VLength(v)}})

\* ------------------------------------------------------------------------
\* Level files (the external input of LoadLevelCommand)
\* ------------------------------------------------------------------------

(* A level file as LoadLevelCommand reads it: the map size, the cells of the
   walls layer, of the tanks layer and of the towers layer, an identifier of
   the ground layer's tiles, and the defect of the file, if any:
     "nofile"      no such file, a non-orthogonal map or not 5 layers
     "ground"      the ground layer does not decode
     "walls"       the walls layer does not decode or has another tile size
     "units"       a units layer does not decode, or tilesets/tile sizes differ
     "explosions"  the explosions layer does not decode or has another tile size
     "window"      a tileset image or the window cannot be set
   A tanks layer with no tank is not a defect the loader checks: tanks[0]
   raises IndexError.                                                      *)
LevelA ==
    [name |-> "A", width |-> 2, height |-> 2, ground |-> 1, walls |-> {},
     tanks |-> {<<0, 0>>}, towers |-> {<<1, 0>>}, defect |-> "none"]

\* a wall below the tank, a tower beside it and one across
LevelB ==
    [name |-> "B", width |-> 2, height |-> 2, ground |-> 2, walls |-> {<<0, 1>>},
     tanks |-> {<<0, 0>>}, towers |-> {<<1, 0>>, <<1, 1>>}, defect |-> "none"]

\* a tank and a tower drawn in the same cell of their two layers
LevelOverlap ==
    [name |-> "O", width |-> 2, height |-> 1, ground |-> 1, walls |-> {},
     tanks |-> {<<1, 0>>}, towers |-> {<<1, 0>>}, defect |-> "none"]

\* no tower at all
LevelNoTower ==
    [name |-> "N", width |-> 2, height |-> 1, ground |-> 1, walls |-> {},
     tanks |-> {<<0, 0>>}, towers |-> {}, defect |-> "none"]

\* no tank at all
LevelNoTank ==
    [name |-> "T", width |-> 2, height |-> 1, ground |-> 1, walls |-> {},
     tanks |-> {}, towers |-> {<<1, 0>>}, defect |-> "none"]

LevelMissing == [LevelA EXCEPT !.name = "M", !.defect = "nofile"]

LevelBadExplosions == [LevelB EXCEPT !.name = "X", !.defect = "explosions"]

\* a wide world: the tower is farther than bulletRange from the tank
LevelLong ==
    [name |-> "L", width |-> 6, height |-> 4, ground |-> 1, walls |-> {},
     tanks |-> {<<0, 0>>}, towers |-> {<<5, 3>>}, defect |-> "none"]

\* one tank and one tower at distance bulletRange in a row of six cells, no wall
LevelDuel ==
    [name |-> "D", width |-> 6, height |-> 1, ground |-> 1, walls |-> {},
     tanks |-> {<<1, 0>>}, towers |-> {<<5, 0>>}, defect |-> "none"]

LevelFiles ==
    {LevelA, LevelB, LevelOverlap, LevelNoTower, LevelNoTank,
     LevelMissing, LevelBadExplosions}

\* the cells of a layer in the order decodeUnitsLayer scans them: by row, then by column
RECURSIVE CellsInScanOrder(_, _)
CellsInScanOrder(cells, width) ==
    IF cells = {} THEN <<>>
    ELSE LET first == CHOOSE c \in cells :
                        \A d \in cells : c[2] * width + c[1] <= d[2] * width + d[1]
         IN <<first>> \o CellsInScanOrder(cells \ {first}, width)

\* Unit.__init__ (GameItem.__init__): a new unit at a cell
NewUnit(cell) ==
    [status |-> "alive", position |-> Cell(cell[1], cell[2]), orientation |-> 0,
     weaponTarget |-> <<0, 0>>, lastBulletEpoch |-> InitialLastBulletEpoch]

\* decodeUnitsLayer: one unit per non-empty cell of the layer
decodeUnitsLayer(cells, width) ==
    LET order == CellsInScanOrder(cells, width)
    IN [i \in 1..Len(order) |-> NewUnit(order[i])]

\* Bullet.__init__: position, start and end are taken from the firing unit
NewBullet(units, u) ==
    [unit |-> u, status |-> "alive", position |-> units[u].position,
     startPosition |-> units[u].position, endPosition |-> units[u].weaponTarget]

\* ------------------------------------------------------------------------
\* GameState
\* ------------------------------------------------------------------------

(* A game is the record g of the fields of PlayGameMode and of its GameState:
   epoch, worldSize (in cells), ground, walls (the cells that hold a wall),
   units, bullets, observers, playerUnit (an index into units), gameOver,
   commands (the queue of PlayGameMode); and
     notifications  the calls of unitDestroyed the observers have received
                    since the units were loaded, in order
     raised         an exception has been raised and is propagating         *)

\* GameState.__init__ and PlayGameMode.__init__
NewPlayGameMode ==
    [epoch |-> 0, worldSize |-> <<16, 10>>, ground |-> 0, walls |-> {},
     units |-> <<NewUnit(<<8, 9>>)>>, bullets |-> <<>>,
     observers |-> [i \in 1..NumObservers |-> i],
     playerUnit |-> 1, gameOver |-> FALSE, commands |-> <<>>,
     notifications |-> <<>>, raised |-> FALSE]

\* playGameMode = None
NoGame ==
    [epoch |-> 0, worldSize |-> <<0, 0>>, ground |-> 0, walls |-> {},
     units |-> <<>>, bullets |-> <<>>, observers |-> <<>>,
     playerUnit |-> 0, gameOver |-> FALSE, commands |-> <<>>,
     notifications |-> <<>>, raised |-> FALSE]

\* GameState.isInside, mutated: the far limits belong to the world
isInsideClosed(worldSize, p) ==
    /\ p[1] >= 0 /\ p[1] <= worldSize[1] * Scale
    /\ p[2] >= 0 /\ p[2] <= worldSize[2] * Scale

\* GameState.isInside
isInside(worldSize, p) ==
    /\ p[1] >= 0 /\ p[1] < worldSize[1] * Scale
    /\ p[2] >= 0 /\ p[2] < worldSize[2] * Scale

\* the units standing in the truncated cell of p
UnitsAt(units, p) ==
    {i \in 1..Len(units) :
        /\ Trunc(units[i].position[1]) = Trunc(p[1])
        /\ Trunc(units[i].position[2]) = Trunc(p[2])}

\* GameState.findUnit: the first unit of the list in the cell of p, 0 for None
findUnit(units, p) ==
    LET at == UnitsAt(units, p)
    IN IF at = {} THEN 0 ELSE CHOOSE i \in at : \A j \in at : i <= j

\* GameState.findLiveUnit
findLiveUnit(units, p) ==
    LET unit == findUnit(units, p)
    IN IF unit = 0 \/ units[unit].status # "alive" THEN 0 ELSE unit

\* GameState.notifyUnitDestroyed, mutated: only the last registered observer is called
notifyLastObserverOnly(g, unit) ==
    [g EXCEPT !.notifications =
        Append(@, [observer |-> g.observers[Len(g.observers)], unit |-> unit])]

\* GameState.notifyUnitDestroyed: every observer is called, in registration order
notifyUnitDestroyed(g, unit) ==
    [g EXCEPT !.notifications =
        @ \o [o \in 1..Len(g.observers) |-> [observer |-> g.observers[o], unit |-> unit]]]

\* ------------------------------------------------------------------------
\* Commands
\* ------------------------------------------------------------------------

\* the orientation MoveCommand sets, mutated: the vertical branch is an elif of the
\* horizontal one
MoveOrientationHorizontalFirst(old, moveVector) ==
    IF moveVector[1] < 0 THEN 90
    ELSE IF moveVector[1] > 0 THEN -90
    ELSE IF moveVector[2] < 0 THEN 0
    ELSE IF moveVector[2] > 0 THEN 180
    ELSE old

\* the orientation MoveCommand sets: the horizontal branch, then the vertical one
MoveOrientation(old, moveVector) ==
    LET horizontal == IF moveVector[1] < 0 THEN 90
                      ELSE IF moveVector[1] > 0 THEN -90 ELSE old
    IN IF moveVector[2] < 0 THEN 0
       ELSE IF moveVector[2] > 0 THEN 180 ELSE horizontal

\* MoveCommand.run, mutated: no test of the unit's status
MoveCommandRunMovesWrecks(g, unit, moveVector) ==
    LET turned == [g EXCEPT !.units[unit].orientation =
                               MoveOrientation(@, moveVector)]
        newPos == VAdd(g.units[unit].position, Cell(moveVector[1], moveVector[2]))
    IN IF ~isInside(g.worldSize, newPos) THEN turned
       ELSE IF <<Trunc(newPos[1]), Trunc(newPos[2])>> \in g.walls THEN turned
       ELSE IF findUnit(g.units, newPos) # 0 THEN turned
       ELSE [turned EXCEPT !.units[unit].position = newPos]

\* MoveCommand.run, mutated: the unit turns only when the move is committed
MoveCommandRunTurnsOnCommit(g, unit, moveVector) ==
    IF g.units[unit].status # "alive" THEN g
    ELSE LET newPos == VAdd(g.units[unit].position, Cell(moveVector[1], moveVector[2]))
         IN IF ~isInside(g.worldSize, newPos) THEN g
            ELSE IF <<Trunc(newPos[1]), Trunc(newPos[2])>> \in g.walls THEN g
            ELSE IF findUnit(g.units, newPos) # 0 THEN g
            ELSE [g EXCEPT !.units[unit].position = newPos,
                           !.units[unit].orientation = MoveOrientation(@, moveVector)]

\* MoveCommand.run, mutated: only a live unit blocks the candidate cell
MoveCommandRunOntoWrecks(g, unit, moveVector) ==
    IF g.units[unit].status # "alive" THEN g
    ELSE LET turned == [g EXCEPT !.units[unit].orientation =
                                    MoveOrientation(@, moveVector)]
             newPos == VAdd(g.units[unit].position, Cell(moveVector[1], moveVector[2]))
         IN IF ~isInside(g.worldSize, newPos) THEN turned
            ELSE IF <<Trunc(newPos[1]), Trunc(newPos[2])>> \in g.walls THEN turned
            ELSE IF findLiveUnit(g.units, newPos) # 0 THEN turned
            ELSE [turned EXCEPT !.units[unit].position = newPos]

\* MoveCommand.run
MoveCommandRun(g, unit, moveVector) ==
    IF g.units[unit].status # "alive" THEN g
    ELSE LET turned == [g EXCEPT !.units[unit].orientation =
                                    MoveOrientation(@, moveVector)]
             newPos == VAdd(g.units[unit].position, Cell(moveVector[1], moveVector[2]))
         IN IF ~isInside(g.worldSize, newPos) THEN turned
            ELSE IF <<Trunc(newPos[1]), Trunc(newPos[2])>> \in g.walls THEN turned
            ELSE IF findUnit(g.units, newPos) # 0 THEN turned
            ELSE [turned EXCEPT !.units[unit].position = newPos]

\* TargetCommand.run, mutated: the bullets the unit has in flight are aimed again
TargetCommandRunReaimsBullets(g, unit, target) ==
    [g EXCEPT !.units[unit].weaponTarget = target,
              !.bullets = [b \in 1..Len(g.bullets) |->
                              IF g.bullets[b].unit = unit
                              THEN [g.bullets[b] EXCEPT !.endPosition = target]
                              ELSE g.bullets[b]]]

\* TargetCommand.run
TargetCommandRun(g, unit, target) ==
    [g EXCEPT !.units[unit].weaponTarget = target]

\* ShootCommand.run, mutated: the cooldown test is <= instead of <
ShootCommandRunOneTickLate(g, unit) ==
    IF g.units[unit].status # "alive" THEN g
    ELSE IF g.epoch - g.units[unit].lastBulletEpoch <= bulletDelay THEN g
    ELSE [g EXCEPT !.units[unit].lastBulletEpoch = g.epoch,
                   !.bullets = Append(@, NewBullet(g.units, unit))]

\* ShootCommand.run
ShootCommandRun(g, unit) ==
    IF g.units[unit].status # "alive" THEN g
    ELSE IF g.epoch - g.units[unit].lastBulletEpoch < bulletDelay THEN g
    ELSE [g EXCEPT !.units[unit].lastBulletEpoch = g.epoch,
                   !.bullets = Append(@, NewBullet(g.units, unit))]

\* the arrival test of MoveBulletCommand on one axis
Reached(delta, new, end) ==
    \/ delta >= 0 /\ new >= end
    \/ delta < 0 /\ new <= end

\* MoveBulletCommand.run, mutated: no range check
MoveBulletCommandRunNoRange(g, b) ==
    LET bullet == g.bullets[b]
        delta == VSub(bullet.endPosition, bullet.startPosition)
    IN IF delta = <<0, 0>> THEN [g EXCEPT !.raised = TRUE]
       ELSE
       LET newPos == VAdd(bullet.position, SpeedTimesNormalized(delta))
           newCenterPos == VAdd(newPos, <<Scale \div 2, Scale \div 2>>)
           destroyed == [g EXCEPT !.bullets[b].status = "destroyed"]
           unit == findLiveUnit(g.units, newCenterPos)
       IN IF ~isInside(g.worldSize, newPos) THEN destroyed
          ELSE IF /\ Reached(delta[1], newPos[1], bullet.endPosition[1])
                  /\ Reached(delta[2], newPos[2], bullet.endPosition[2])
               THEN destroyed
          ELSE IF unit # 0 /\ unit # bullet.unit
               THEN notifyUnitDestroyed(
                        [destroyed EXCEPT !.units[unit].status = "destroyed"], unit)
          ELSE [g EXCEPT !.bullets[b].position = newPos]

\* MoveBulletCommand.run, mutated: the hit test comes before the arrival and range
\* checks
MoveBulletCommandRunHitFirst(g, b) ==
    LET bullet == g.bullets[b]
        delta == VSub(bullet.endPosition, bullet.startPosition)
    IN IF delta = <<0, 0>> THEN [g EXCEPT !.raised = TRUE]
       ELSE
       LET newPos == VAdd(bullet.position, SpeedTimesNormalized(delta))
           newCenterPos == VAdd(newPos, <<Scale \div 2, Scale \div 2>>)
           destroyed == [g EXCEPT !.bullets[b].status = "destroyed"]
           unit == findLiveUnit(g.units, newCenterPos)
       IN IF ~isInside(g.worldSize, newPos) THEN destroyed
          ELSE IF unit # 0 /\ unit # bullet.unit
               THEN notifyUnitDestroyed(
                        [destroyed EXCEPT !.units[unit].status = "destroyed"], unit)
          ELSE IF /\ Reached(delta[1], newPos[1], bullet.endPosition[1])
                  /\ Reached(delta[2], newPos[2], bullet.endPosition[2])
               THEN destroyed
          ELSE IF DistSq(newPos, bullet.startPosition)
                    >= (bulletRange * Scale) * (bulletRange * Scale)
               THEN destroyed
          ELSE [g EXCEPT !.bullets[b].position = newPos]

\* MoveBulletCommand.run; normalize() of a zero vector raises ValueError
MoveBulletCommandRun(g, b) ==
    LET bullet == g.bullets[b]
        delta == VSub(bullet.endPosition, bullet.startPosition)
    IN IF delta = <<0, 0>> THEN [g EXCEPT !.raised = TRUE]
       ELSE
       LET Advance(newPos) ==
       LET newCenterPos == VAdd(newPos, <<Scale \div 2, Scale \div 2>>)
           destroyed == [g EXCEPT !.bullets[b].status = "destroyed"]
           unit == findLiveUnit(g.units, newCenterPos)
       IN IF ~isInside(g.worldSize, newPos) THEN destroyed
          ELSE IF /\ Reached(delta[1], newPos[1], bullet.endPosition[1])
                  /\ Reached(delta[2], newPos[2], bullet.endPosition[2])
               THEN destroyed
          ELSE IF DistSq(newPos, bullet.startPosition)
                    >= (bulletRange * Scale) * (bulletRange * Scale)
               THEN destroyed
          ELSE IF unit # 0 /\ unit # bullet.unit
               THEN notifyUnitDestroyed(
                        [destroyed EXCEPT !.units[unit].status = "destroyed"], unit)
          ELSE [g EXCEPT !.bullets[b].position = newPos]
       IN Only({Advance(newPos) :
                   newPos \in {VAdd(bullet.position, SpeedTimesNormalized(delta))}})

\* DeleteDestroyedCommand.run, mutated: the live items are kept in reverse order
DeleteDestroyedCommandRunReversed(g) ==
    LET live == SelectSeq(g.bullets, LAMBDA item : item.status = "alive")
    IN [g EXCEPT !.bullets = [i \in 1..Len(live) |-> live[Len(live) + 1 - i]]]

\* DeleteDestroyedCommand.run, mutated: the destroyed units are deleted as well
DeleteDestroyedCommandRunOnUnits(g) ==
    [g EXCEPT !.bullets = SelectSeq(@, LAMBDA item : item.status = "alive"),
              !.units = SelectSeq(@, LAMBDA item : item.status = "alive")]

\* DeleteDestroyedCommand.run, on the bullet list
DeleteDestroyedCommandRun(g) ==
    [g EXCEPT !.bullets = SelectSeq(@, LAMBDA item : item.status = "alive")]

\* LoadLevelCommand.run: the assignments in the order of the code; a defect raises
\* at its place and leaves the assignments before it done
LoadLevelCommandRun(g, level) ==
    LET fail(h) == [h EXCEPT !.raised = TRUE]
        tanks == decodeUnitsLayer(level.tanks, level.width)
        towers == decodeUnitsLayer(level.towers, level.width)
        g1 == [g EXCEPT !.worldSize = <<level.width, level.height>>]
        g2 == [g1 EXCEPT !.ground = level.ground]
        g3 == [g2 EXCEPT !.walls = level.walls]
        g4 == [g3 EXCEPT !.units = tanks \o towers, !.notifications = <<>>]
        g5 == [g4 EXCEPT !.playerUnit = 1]
        g6 == [g5 EXCEPT !.bullets = <<>>]
    IN IF level.defect = "nofile" THEN fail(g)
       ELSE IF level.defect = "ground" THEN fail(g1)
       ELSE IF level.defect = "walls" THEN fail(g2)
       ELSE IF level.defect = "units" THEN fail(g3)
       ELSE IF Len(tanks) = 0 THEN fail(g4)
       ELSE IF level.defect = "explosions" THEN fail(g5)
       ELSE IF level.defect = "window" THEN fail(g6)
       ELSE [g6 EXCEPT !.gameOver = FALSE]

\* Command.run of a queued command
RunCommand(g, command) ==
    CASE command.type = "Move" -> MoveCommandRun(g, command.unit, command.moveVector)
      [] command.type = "Target" -> TargetCommandRun(g, command.unit, command.target)
      [] command.type = "Shoot" -> ShootCommandRun(g, command.unit)
      [] command.type = "MoveBullet" -> MoveBulletCommandRun(g, command.bullet)
      [] command.type = "DeleteDestroyed" -> DeleteDestroyedCommandRun(g)
      [] command.type = "LoadLevel" -> LoadLevelCommandRun(g, command.level)

\* ------------------------------------------------------------------------
\* Turn loop
\* ------------------------------------------------------------------------

\* the move vectors explored: none, the four arrow keys, and two keys in one frame
MoveVectors == {<<0, 0>>, <<-1, 0>>, <<1, 0>>, <<0, -1>>, <<0, 1>>, <<1, 1>>}

\* the pointer positions explored, in pixels: the centres of cells (0,0) and (1,0)
MousePositions == {<<32, 32>>, <<96, 32>>}

\* the input of one play frame: a window event (ESCAPE, QUIT or none of them),
\* the move vector of the arrow keys, the pointer and the mouse button.
\* Explored: a frame that moves, or one that clicks, or one that moves down and
\* clicks, or one with a window event.
FrameInputs ==
    [event : {"none"}, moveVector : MoveVectors,
     mousePos : {<<96, 32>>}, mouseClicked : {FALSE}]
    \cup [event : {"none"}, moveVector : {<<0, 0>>},
          mousePos : MousePositions, mouseClicked : {TRUE}]
    \cup [event : {"none"}, moveVector : {<<0, 1>>},
          mousePos : {<<96, 32>>}, mouseClicked : {TRUE}]
    \cup [event : {"escape", "quit"}, moveVector : {<<0, 0>>},
          mousePos : {<<96, 32>>}, mouseClicked : {FALSE}]

\* targetCell of PlayGameMode.processInput: mousePos / cellSize - 0.5
TargetCell(mousePos) ==
    <<RoundDiv(mousePos[1] * Scale, cellWidth) - Scale \div 2,
      RoundDiv(mousePos[2] * Scale, cellHeight) - Scale \div 2>>

\* the commands of the non-player units, mutated: they shoot at any distance
RECURSIVE UnitCommandsAnyRange(_, _)
UnitCommandsAnyRange(g, unit) ==
    IF unit > Len(g.units) THEN <<>>
    ELSE (IF unit = g.playerUnit THEN <<>>
          ELSE <<[type |-> "Target", unit |-> unit,
                  target |-> g.units[g.playerUnit].position],
                 [type |-> "Shoot", unit |-> unit]>>)
         \o UnitCommandsAnyRange(g, unit + 1)

\* the commands of the non-player units, mutated: they are aimed and never shoot
RECURSIVE UnitCommandsTargetOnly(_, _)
UnitCommandsTargetOnly(g, unit) ==
    IF unit > Len(g.units) THEN <<>>
    ELSE (IF unit = g.playerUnit THEN <<>>
          ELSE <<[type |-> "Target", unit |-> unit,
                  target |-> g.units[g.playerUnit].position]>>)
         \o UnitCommandsTargetOnly(g, unit + 1)

\* the commands of the non-player units, in list order
RECURSIVE UnitCommands(_, _)
UnitCommands(g, unit) ==
    IF unit > Len(g.units) THEN <<>>
    ELSE (IF unit = g.playerUnit THEN <<>>
          ELSE <<[type |-> "Target", unit |-> unit,
                  target |-> g.units[g.playerUnit].position]>>
               \o (IF DistSq(g.units[unit].position, g.units[g.playerUnit].position)
                        <= (bulletRange * Scale) * (bulletRange * Scale)
                    THEN <<[type |-> "Shoot", unit |-> unit]>>
                    ELSE <<>>))
         \o UnitCommands(g, unit + 1)

\* PlayGameMode.processInput, mutated: no DeleteDestroyedCommand is queued
processInputKeepsDestroyed(g, moveVector, mousePos, mouseClicked) ==
    IF g.gameOver THEN <<>>
    ELSE (IF moveVector # <<0, 0>>
          THEN <<[type |-> "Move", unit |-> g.playerUnit, moveVector |-> moveVector]>>
          ELSE <<>>)
         \o <<[type |-> "Target", unit |-> g.playerUnit, target |-> TargetCell(mousePos)]>>
         \o (IF mouseClicked THEN <<[type |-> "Shoot", unit |-> g.playerUnit]>> ELSE <<>>)
         \o UnitCommands(g, 1)
         \o [b \in 1..Len(g.bullets) |-> [type |-> "MoveBullet", bullet |-> b]]

\* PlayGameMode.processInput, mutated: the last bullet of the list is not moved
processInputSkipsNewest(g, moveVector, mousePos, mouseClicked) ==
    IF g.gameOver THEN <<>>
    ELSE (IF moveVector # <<0, 0>>
          THEN <<[type |-> "Move", unit |-> g.playerUnit, moveVector |-> moveVector]>>
          ELSE <<>>)
         \o <<[type |-> "Target", unit |-> g.playerUnit, target |-> TargetCell(mousePos)]>>
         \o (IF mouseClicked THEN <<[type |-> "Shoot", unit |-> g.playerUnit]>> ELSE <<>>)
         \o UnitCommands(g, 1)
         \o [b \in 1..(Len(g.bullets) - 1) |-> [type |-> "MoveBullet", bullet |-> b]]
         \o <<[type |-> "DeleteDestroyed"]>>

\* PlayGameMode.processInput, mutated: the destroyed bullets are deleted before the
\* bullets are moved
processInputDeleteFirst(g, moveVector, mousePos, mouseClicked) ==
    IF g.gameOver THEN <<>>
    ELSE (IF moveVector # <<0, 0>>
          THEN <<[type |-> "Move", unit |-> g.playerUnit, moveVector |-> moveVector]>>
          ELSE <<>>)
         \o <<[type |-> "Target", unit |-> g.playerUnit, target |-> TargetCell(mousePos)]>>
         \o (IF mouseClicked THEN <<[type |-> "Shoot", unit |-> g.playerUnit]>> ELSE <<>>)
         \o UnitCommands(g, 1)
         \o <<[type |-> "DeleteDestroyed"]>>
         \o [b \in 1..Len(g.bullets) |-> [type |-> "MoveBullet", bullet |-> b]]

\* PlayGameMode.processInput, mutated: the bullets are moved before the units shoot
processInputBulletsFirst(g, moveVector, mousePos, mouseClicked) ==
    IF g.gameOver THEN <<>>
    ELSE (IF moveVector # <<0, 0>>
          THEN <<[type |-> "Move", unit |-> g.playerUnit, moveVector |-> moveVector]>>
          ELSE <<>>)
         \o <<[type |-> "Target", unit |-> g.playerUnit, target |-> TargetCell(mousePos)]>>
         \o [b \in 1..Len(g.bullets) |-> [type |-> "MoveBullet", bullet |-> b]]
         \o (IF mouseClicked THEN <<[type |-> "Shoot", unit |-> g.playerUnit]>> ELSE <<>>)
         \o UnitCommands(g, 1)
         \o <<[type |-> "DeleteDestroyed"]>>

\* PlayGameMode.processInput, mutated: no return when the game is over
processInputWhenOver(g, moveVector, mousePos, mouseClicked) ==
    (IF moveVector # <<0, 0>>
     THEN <<[type |-> "Move", unit |-> g.playerUnit, moveVector |-> moveVector]>>
     ELSE <<>>)
    \o <<[type |-> "Target", unit |-> g.playerUnit, target |-> TargetCell(mousePos)]>>
    \o (IF mouseClicked THEN <<[type |-> "Shoot", unit |-> g.playerUnit]>> ELSE <<>>)
    \o UnitCommands(g, 1)
    \o [b \in 1..Len(g.bullets) |-> [type |-> "MoveBullet", bullet |-> b]]
    \o <<[type |-> "DeleteDestroyed"]>>

\* PlayGameMode.processInput: the commands it appends to the queue
processInput(g, moveVector, mousePos, mouseClicked) ==
    IF g.gameOver THEN <<>>
    ELSE (IF moveVector # <<0, 0>>
          THEN <<[type |-> "Move", unit |-> g.playerUnit, moveVector |-> moveVector]>>
          ELSE <<>>)
         \o <<[type |-> "Target", unit |-> g.playerUnit, target |-> TargetCell(mousePos)]>>
         \o (IF mouseClicked THEN <<[type |-> "Shoot", unit |-> g.playerUnit]>> ELSE <<>>)
         \o UnitCommands(g, 1)
         \o [b \in 1..Len(g.bullets) |-> [type |-> "MoveBullet", bullet |-> b]]
         \o <<[type |-> "DeleteDestroyed"]>>

\* the loop of PlayGameMode.update over the queue: the game before the first
\* command and after each command that ran; an exception ends the loop
RECURSIVE RunCommands(_, _)
RunCommands(g, commands) ==
    IF commands = <<>> \/ g.raised THEN <<g>>
    ELSE LET Rest(next) == <<g>> \o RunCommands(next, Tail(commands))
         IN Only({Rest(next) : next \in {RunCommand(g, Head(commands))}})

\* the end of PlayGameMode.update, mutated: the enemies are looked at before the player
CheckGameOverEnemiesFirst(g) ==
    LET next == [g EXCEPT !.epoch = @ + 1]
        oneEnemyStillLives ==
            \E i \in 1..Len(next.units) :
                i # next.playerUnit /\ next.units[i].status = "alive"
    IN IF ~oneEnemyStillLives
       THEN [game |-> [next EXCEPT !.gameOver = TRUE], message |-> "Victory !"]
       ELSE IF next.units[next.playerUnit].status # "alive"
       THEN [game |-> [next EXCEPT !.gameOver = TRUE], message |-> "GAME OVER"]
       ELSE [game |-> next, message |-> ""]

\* the end of PlayGameMode.update, mutated: a game that is over does not count the tick
CheckGameOverStopsEpoch(g) ==
    LET next == [g EXCEPT !.epoch = IF g.gameOver THEN @ ELSE @ + 1]
        oneEnemyStillLives ==
            \E i \in 1..Len(next.units) :
                i # next.playerUnit /\ next.units[i].status = "alive"
    IN IF next.units[next.playerUnit].status # "alive"
       THEN [game |-> [next EXCEPT !.gameOver = TRUE], message |-> "GAME OVER"]
       ELSE IF ~oneEnemyStillLives
       THEN [game |-> [next EXCEPT !.gameOver = TRUE], message |-> "Victory !"]
       ELSE [game |-> next, message |-> ""]

\* the rest of PlayGameMode.update, after the queue ran without an exception:
\* the epoch, the game-over flag, and the message shown ("" for none)
CheckGameOver(g) ==
    LET next == [g EXCEPT !.epoch = @ + 1]
        oneEnemyStillLives ==
            \E i \in 1..Len(next.units) :
                i # next.playerUnit /\ next.units[i].status = "alive"
    IN IF next.units[next.playerUnit].status # "alive"
       THEN [game |-> [next EXCEPT !.gameOver = TRUE], message |-> "GAME OVER"]
       ELSE IF ~oneEnemyStillLives
       THEN [game |-> [next EXCEPT !.gameOver = TRUE], message |-> "Victory !"]
       ELSE [game |-> next, message |-> ""]

\* PlayGameMode.update, mutated: the queue is not cleared
updateKeepsQueue(g, commands) ==
    LET queued == [g EXCEPT !.commands = @ \o commands]
        states == RunCommands(queued, queued.commands)
        last == states[Len(states)]
    IN IF last.raised
       THEN [states |-> states, game |-> last, message |-> ""]
       ELSE [states |-> states] @@ CheckGameOver(last)

\* PlayGameMode.update on a game whose queue has just been given these commands:
\* the states the queue went through, the game it leaves and the message it shows;
\* an exception leaves the game as the failing command left it, the queue not cleared
update(g, commands) ==
    LET Run(queued) == RunCommands(queued, queued.commands)
        Finish(states) ==
            LET last == states[Len(states)]
            IN IF last.raised
               THEN [states |-> states, game |-> last, message |-> ""]
               ELSE [states |-> states]
                    @@ CheckGameOver([last EXCEPT !.commands = <<>>])
    IN Only({Finish(states) :
                states \in {Run(queued) :
                               queued \in {[g EXCEPT !.commands = @ \o commands]}}})

\* ------------------------------------------------------------------------
\* State
\* ------------------------------------------------------------------------

VARIABLES
    running,            \* UserInterface.running
    currentActiveMode,  \* UserInterface.currentActiveMode: "Overlay" or "Play"
    overlayGameMode,    \* "Menu", or the text of the MessageGameMode
    playGameMode,       \* "None" or "PlayGameMode"
    game,               \* the PlayGameMode and its GameState (NoGame for None)
    lastOp,             \* what the last iteration of the main loop did
    lastInput,          \* the input of the last play frame
    ran                 \* the queue the last update ran and the states it went through

vars ==
    <<running, currentActiveMode, overlayGameMode, playGameMode, game,
      lastOp, lastInput, ran>>

NoInput ==
    [event |-> "none", moveVector |-> <<0, 0>>, mousePos |-> <<0, 0>>,
     mouseClicked |-> FALSE]

NoRun == [commands |-> <<>>, states |-> <<>>]

\* UserInterface.__init__
Init ==
    /\ running = TRUE
    /\ currentActiveMode = "Overlay"
    /\ overlayGameMode = "Menu"
    /\ playGameMode = "None"
    /\ game = NoGame
    /\ lastOp = "start"
    /\ lastInput = NoInput
    /\ ran = NoRun

\* ------------------------------------------------------------------------
\* One iteration of UserInterface.run per action
\* ------------------------------------------------------------------------

\* UserInterface.showMessage
showMessage(message) ==
    /\ overlayGameMode' = message
    /\ currentActiveMode' = "Overlay"

\* the except branch of UserInterface.loadLevel, mutated: the game is kept
ExceptInLoadLevelKeepsGame(failed) ==
    /\ playGameMode' = "PlayGameMode"
    /\ game' = [failed EXCEPT !.raised = FALSE]
    /\ showMessage("Level loading failed :-(")

\* the except branch of UserInterface.run, mutated: the game is kept
ExceptInRunKeepsGame(failed) ==
    /\ playGameMode' = "PlayGameMode"
    /\ game' = [failed EXCEPT !.raised = FALSE]
    /\ showMessage("Error during the game update...")

\* the except branch of UserInterface.loadLevel; failed is the game the command left
ExceptInLoadLevel(failed) ==
    /\ playGameMode' = "None"
    /\ game' = NoGame
    /\ showMessage("Level loading failed :-(")

\* the except branch of UserInterface.run; failed is the game the command left
ExceptInRun(failed) ==
    /\ playGameMode' = "None"
    /\ game' = NoGame
    /\ showMessage("Error during the game update...")

\* UserInterface.loadLevel, called by the menu item of a level
loadLevel(level) ==
    LET g == IF playGameMode = "None" THEN NewPlayGameMode ELSE game
        commands == <<[type |-> "LoadLevel", level |-> level]>>
        done == update(g, commands)
    IN /\ ran' = [commands |-> done.states[1].commands, states |-> done.states]
       /\ lastInput' = NoInput
       /\ running' = running
       /\ IF done.game.raised
          THEN /\ ExceptInLoadLevel(done.game)
               /\ lastOp' = "loadFailed"
          ELSE /\ playGameMode' = "PlayGameMode"
               /\ game' = done.game
               /\ overlayGameMode' =
                      IF done.message # "" THEN done.message ELSE overlayGameMode
               /\ currentActiveMode' = "Play"
               /\ lastOp' = "loaded"

\* the menu overlay, RETURN on a level item
MenuLoadLevel ==
    /\ running /\ currentActiveMode = "Overlay" /\ overlayGameMode = "Menu"
    /\ game.epoch < MaxEpoch
    /\ \E level \in LevelFiles : loadLevel(level)

\* the menu overlay, ESCAPE: UserInterface.showGame
MenuShowGame ==
    /\ running /\ currentActiveMode = "Overlay" /\ overlayGameMode = "Menu"
    /\ currentActiveMode' = IF playGameMode # "None" THEN "Play" ELSE currentActiveMode
    /\ lastOp' = "showGame"
    /\ lastInput' = NoInput
    /\ ran' = NoRun
    /\ UNCHANGED <<running, overlayGameMode, playGameMode, game>>

\* an overlay, the QUIT event or the Quit item: UserInterface.quitGame
OverlayQuit ==
    /\ running /\ currentActiveMode = "Overlay"
    /\ running' = FALSE
    /\ lastOp' = "quit"
    /\ lastInput' = NoInput
    /\ ran' = NoRun
    /\ UNCHANGED <<currentActiveMode, overlayGameMode, playGameMode, game>>

\* the message overlay, ESCAPE, SPACE or RETURN: UserInterface.showMenu
MessageShowMenu ==
    /\ running /\ currentActiveMode = "Overlay" /\ overlayGameMode # "Menu"
    /\ overlayGameMode' = "Menu"
    /\ lastOp' = "showMenu"
    /\ lastInput' = NoInput
    /\ ran' = NoRun
    /\ UNCHANGED <<running, currentActiveMode, playGameMode, game>>

\* one iteration of UserInterface.run in play mode with the given input:
\* PlayGameMode.processInput, then PlayGameMode.update under the try
RunFrame(input) ==
    \E done \in {update(game, processInput(game, input.moveVector, input.mousePos,
                                            input.mouseClicked))} :
       /\ lastInput' = input
       /\ ran' = [commands |-> done.states[1].commands, states |-> done.states]
       /\ running' = (input.event # "quit")
       /\ IF done.game.raised
          THEN /\ ExceptInRun(done.game)
               /\ lastOp' = "updateFailed"
          ELSE /\ playGameMode' = playGameMode
               /\ game' = done.game
               /\ overlayGameMode' =
                      IF done.message # "" THEN done.message
                      ELSE IF input.event = "escape" THEN "Menu"
                      ELSE overlayGameMode
               /\ currentActiveMode' =
                      IF done.message # "" \/ input.event = "escape" THEN "Overlay"
                      ELSE currentActiveMode
               /\ lastOp' = "updated"

\* a play frame: the pointer is inside the window
PlayFrame ==
    /\ running /\ currentActiveMode = "Play" /\ playGameMode # "None"
    /\ game.epoch < MaxEpoch
    /\ \E input \in FrameInputs :
        /\ input.mousePos[1] < game.worldSize[1] * cellWidth
        /\ input.mousePos[2] < game.worldSize[2] * cellHeight
        /\ RunFrame(input)

Next ==
    \/ MenuLoadLevel
    \/ MenuShowGame
    \/ OverlayQuit
    \/ MessageShowMenu
    \/ PlayFrame

Spec == Init /\ [][Next]_vars

\* ------------------------------------------------------------------------
\* Long flights: one level load, then play frames in a wide world
\* ------------------------------------------------------------------------

\* the pointer positions explored, in pixels: the centres of cells (5,0), (4,3) and
\* (2,0), and the border of cells (4,2) and (5,2) (the target is (4.0, 2.0)); the last
\* but one is nearer than bulletRange to the tank, the others are farther
FlightMousePositions == {<<352, 32>>, <<288, 224>>, <<160, 32>>, <<288, 160>>}

\* the input of one play frame: no key; the pointer rests on cell (5,0) or clicks
FlightInputs ==
    [event : {"none"}, moveVector : {<<0, 0>>},
     mousePos : {<<352, 32>>}, mouseClicked : {FALSE}]
    \cup [event : {"none"}, moveVector : {<<0, 0>>},
          mousePos : FlightMousePositions, mouseClicked : {TRUE}]

\* the menu overlay, RETURN on the item of the wide level, when no game exists
FlightLoadLevel ==
    /\ running /\ currentActiveMode = "Overlay" /\ overlayGameMode = "Menu"
    /\ playGameMode = "None"
    /\ loadLevel(LevelLong)

\* a play frame of the wide level
FlightFrame ==
    /\ running /\ currentActiveMode = "Play" /\ playGameMode # "None"
    /\ game.epoch < MaxFlightEpoch
    /\ \E input \in FlightInputs :
        /\ input.mouseClicked => game.epoch <= MaxClickEpoch
        /\ input.mousePos[1] < game.worldSize[1] * cellWidth
        /\ input.mousePos[2] < game.worldSize[2] * cellHeight
        /\ RunFrame(input)

NextFlight ==
    \/ FlightLoadLevel
    \/ FlightFrame

SpecFlight == Init /\ [][NextFlight]_vars

\* ------------------------------------------------------------------------
\* The duel: one tank and one tower in range of each other, no wall; one level
\* load, then play frames until the game is over
\* ------------------------------------------------------------------------

\* the input of one play frame, the pointer on the tower: nothing, the left arrow
\* key, or a click
DuelInputs ==
    [event : {"none"}, moveVector : {<<0, 0>>, <<-1, 0>>},
     mousePos : {<<352, 32>>}, mouseClicked : {FALSE}]
    \cup [event : {"none"}, moveVector : {<<0, 0>>},
          mousePos : {<<352, 32>>}, mouseClicked : {TRUE}]

\* the menu overlay, RETURN on the item of the level, when no game exists
DuelLoadLevel ==
    /\ running /\ currentActiveMode = "Overlay" /\ overlayGameMode = "Menu"
    /\ playGameMode = "None"
    /\ loadLevel(LevelDuel)

\* a play frame of the duel
DuelFrame ==
    /\ running /\ currentActiveMode = "Play" /\ playGameMode # "None"
    /\ game.epoch < MaxDuelEpoch
    /\ \E input \in DuelInputs :
        /\ input.mouseClicked => game.epoch <= MaxClickEpoch
        /\ RunFrame(input)

NextDuel ==
    \/ DuelLoadLevel
    \/ DuelFrame

\* the main loop runs a frame in every iteration while it is in play mode
SpecDuel == Init /\ [][NextDuel]_vars /\ WF_vars(DuelFrame)

\* ------------------------------------------------------------------------
\* Shots: one level load, then play frames in which the tank stays in its cell;
\* next to a tower it aims at points of its row, in the wide world it fires the
\* long flights
\* ------------------------------------------------------------------------

\* the pointer positions explored next to a tower, in pixels: the left edge of the
\* window (the target is half a cell outside the world), the border of cells (0,0)
\* and (1,0) (the target is half a cell short of the tower) and the centre of
\* cell (1,0)
ShotMousePositions == {<<0, 32>>, <<64, 32>>, <<96, 32>>}

\* the input of one play frame next to a tower: no key; the pointer rests or clicks
ShotInputs ==
    [event : {"none"}, moveVector : {<<0, 0>>},
     mousePos : ShotMousePositions, mouseClicked : BOOLEAN]

\* the menu overlay, RETURN on the item of a level with a tower next to the tank,
\* when no game exists
ShotLoadLevel ==
    /\ running /\ currentActiveMode = "Overlay" /\ overlayGameMode = "Menu"
    /\ playGameMode = "None"
    /\ \E level \in {LevelA, LevelB} : loadLevel(level)

\* a play frame next to a tower
ShotFrame ==
    /\ running /\ currentActiveMode = "Play" /\ playGameMode # "None"
    /\ game.worldSize = <<2, 2>>
    /\ game.epoch < MaxEpoch
    /\ \E input \in ShotInputs : RunFrame(input)

\* a play frame of the wide level
ShotFlightFrame ==
    /\ game.worldSize = <<6, 4>>
    /\ FlightFrame

NextShot ==
    \/ ShotLoadLevel
    \/ ShotFrame
    \/ FlightLoadLevel
    \/ ShotFlightFrame

SpecShot == Init /\ [][NextShot]_vars

\* ------------------------------------------------------------------------
\* The commands and isInside called directly on a GameState
\* ------------------------------------------------------------------------

\* the move vectors a MoveCommand is given: each axis -1, 0 or 1
CommandMoveVectors == {<<dx, dy>> : dx \in {-1, 0, 1}, dy \in {-1, 0, 1}}

\* the coordinates isInside is given: on, just inside and just outside each limit
\* of a world one or two cells wide or high, in 1/Scale
CommandCoordinates ==
    {-Scale, -1, 0, Scale \div 2, Scale - 1, Scale, 2 * Scale - 1, 2 * Scale,
     3 * Scale}

\* the levels the GameState is loaded from: 2x2 without and with a wall, and 2x1
CommandLevels == {LevelA, LevelB, LevelNoTower}

\* g with the status and the orientation of each unit set
WithUnits(g, statuses, orientations) ==
    [g EXCEPT !.units = [i \in 1..Len(g.units) |->
                            [g.units[i] EXCEPT !.status = statuses[i],
                                               !.orientation = orientations[i]]]]

\* the GameState of a loaded level, each of its units alive or destroyed and
\* turned up or to the left
CommandGames ==
    UNION {LET g == update(NewPlayGameMode,
                           <<[type |-> "LoadLevel", level |-> level]>>).game
           IN {WithUnits(g, statuses, orientations) :
                  statuses \in [1..Len(g.units) -> {"alive", "destroyed"}],
                  orientations \in [1..Len(g.units) -> {0, 90}]}
           : level \in CommandLevels}

InitCommand ==
    /\ running = TRUE
    /\ currentActiveMode = "Play"
    /\ overlayGameMode = "Menu"
    /\ playGameMode = "PlayGameMode"
    /\ game \in CommandGames
    /\ lastOp = "start"
    /\ lastInput = NoInput
    /\ ran = NoRun

\* command.run() of one command built on the game as it was drawn
CallCommand(command) ==
    /\ lastOp = "start"
    /\ game' = RunCommand(game, command)
    /\ ran' = [commands |-> <<command>>, states |-> <<game, game'>>]
    /\ lastOp' = "command"
    /\ UNCHANGED <<running, currentActiveMode, overlayGameMode, playGameMode,
                   lastInput>>

\* MoveCommand(state, unit, moveVector).run()
CallMoveCommand ==
    \E unit \in 1..Len(game.units), moveVector \in CommandMoveVectors :
        CallCommand([type |-> "Move", unit |-> unit, moveVector |-> moveVector])

\* ShootCommand(state, unit).run()
CallShootCommand ==
    \E unit \in 1..Len(game.units) :
        CallCommand([type |-> "Shoot", unit |-> unit])

\* state.isInside(position): lastOp holds what it returned
CallIsInside ==
    \E x \in CommandCoordinates, y \in CommandCoordinates :
        /\ lastOp = "start"
        /\ lastOp' = IF isInside(game.worldSize, <<x, y>>) THEN "inside" ELSE "outside"
        /\ ran' = [commands |-> <<[type |-> "isInside", position |-> <<x, y>>]>>,
                   states |-> <<game, game>>]
        /\ UNCHANGED <<running, currentActiveMode, overlayGameMode, playGameMode,
                       game, lastInput>>

NextCommand ==
    \/ CallMoveCommand
    \/ CallShootCommand
    \/ CallIsInside

SpecCommand == InitCommand /\ [][NextCommand]_vars

\* ------------------------------------------------------------------------
\* Properties
\* ------------------------------------------------------------------------

\* the commands the last update ran: command k took ran.states[k] to ran.states[k + 1]
Steps == 1..(Len(ran.states) - 1)

Before(k) == ran.states[k]

After(k) == ran.states[k + 1]

\* the cell (column, row) a position is in
CellOf(p) == <<Trunc(p[1]), Trunc(p[2])>>

Alive(g, i) == g.units[i].status = "alive"

(* C1: in every reachable state no grid cell is occupied by more than one
   live unit.  The loader puts the tanks layer and the towers layer in one
   list without comparing their cells, so a level that draws a tank and a
   tower in the same cell breaks this.                                      *)
C1_OneLiveUnitPerCell ==
    \A i, j \in 1..Len(game.units) :
        (i # j /\ Alive(game, i) /\ Alive(game, j))
            => CellOf(game.units[i].position) # CellOf(game.units[j].position)

\* the candidate position of a Move command in the state it runs in
Candidate(k) ==
    VAdd(Before(k).units[ran.commands[k].unit].position,
         Cell(ran.commands[k].moveVector[1], ran.commands[k].moveVector[2]))

\* the candidate is inside the world, holds no wall and no unit, alive or destroyed
CandidateFree(k) ==
    LET c == CellOf(Candidate(k))
    IN /\ Candidate(k)[1] >= 0 /\ c[1] < Before(k).worldSize[1]
       /\ Candidate(k)[2] >= 0 /\ c[2] < Before(k).worldSize[2]
       /\ c \notin Before(k).walls
       /\ \A i \in 1..Len(Before(k).units) : CellOf(Before(k).units[i].position) # c

(* C2: a MoveCommand on a live unit sets the unit's position to current +
   moveVector if and only if the candidate is inside the world, its cell has
   no wall and no unit (alive or destroyed) stands in it; otherwise the
   position is unchanged; no exception is raised either way, and no other
   unit moves.                                                              *)
C2_MoveCommitsIffFree ==
    \A k \in Steps :
        (ran.commands[k].type = "Move" /\ Alive(Before(k), ran.commands[k].unit))
        => LET u == ran.commands[k].unit
           IN /\ ~After(k).raised
              /\ After(k).units[u].position =
                    IF CandidateFree(k) THEN Candidate(k)
                    ELSE Before(k).units[u].position
              /\ \A i \in 1..Len(Before(k).units) :
                    i # u => After(k).units[i] = Before(k).units[i]

\* C2's case: a move was committed, and in the same world one was rejected before
C2_Witness ==
    /\ lastOp = "updated"
    /\ \E k \in Steps :
        /\ ran.commands[k].type = "Move"
        /\ Alive(Before(k), ran.commands[k].unit)
        /\ After(k).units[ran.commands[k].unit].position = Candidate(k)

\* a move rejected because a destroyed unit stands in the candidate cell
C2_RejectedByDestroyedUnit ==
    \E k \in Steps :
        /\ ran.commands[k].type = "Move"
        /\ Alive(Before(k), ran.commands[k].unit)
        /\ \E i \in 1..Len(Before(k).units) :
              /\ ~Alive(Before(k), i)
              /\ CellOf(Before(k).units[i].position) = CellOf(Candidate(k))

\* a move rejected because a wall stands in the candidate cell
C2_RejectedByWall ==
    \E k \in Steps :
        /\ ran.commands[k].type = "Move"
        /\ Alive(Before(k), ran.commands[k].unit)
        /\ CellOf(Candidate(k)) \in Before(k).walls

\* the Shoot command of step k fires: its unit is alive and its cooldown is over
Fires(k) ==
    LET u == ran.commands[k].unit
    IN /\ Alive(Before(k), u)
       /\ Before(k).epoch - Before(k).units[u].lastBulletEpoch >= bulletDelay

(* C3: two bullets of one unit are stamped at epochs at least bulletDelay
   apart.  A ShootCommand fires exactly when its unit is alive and epoch -
   lastBulletEpoch >= bulletDelay: it then stamps lastBulletEpoch = epoch and
   appends one bullet at the unit's position aimed at its weaponTarget;
   otherwise it changes nothing.  No other command of a tick adds a bullet or
   changes a lastBulletEpoch.                                               *)
C3_ShootCooldown ==
    \A k \in Steps :
        LET cmd == ran.commands[k]
        IN IF cmd.type = "Shoot"
           THEN IF Fires(k)
                THEN /\ After(k).units[cmd.unit].lastBulletEpoch = Before(k).epoch
                     /\ After(k).bullets =
                          Append(Before(k).bullets,
                                 [unit |-> cmd.unit, status |-> "alive",
                                  position |-> Before(k).units[cmd.unit].position,
                                  startPosition |-> Before(k).units[cmd.unit].position,
                                  endPosition |-> Before(k).units[cmd.unit].weaponTarget])
                ELSE After(k) = Before(k)
           ELSE cmd.type # "LoadLevel"
                => /\ Len(After(k).bullets) <= Len(Before(k).bullets)
                   /\ \A i \in 1..Len(Before(k).units) :
                        After(k).units[i].lastBulletEpoch
                            = Before(k).units[i].lastBulletEpoch

\* C3's case: a unit that fired at epoch E fires again at epoch E + bulletDelay,
\* after its ShootCommand at E + bulletDelay - 1 did nothing
C3_Witness ==
    /\ lastOp = "updated"
    /\ \E k \in Steps :
        /\ ran.commands[k].type = "Shoot"
        /\ Fires(k)
        /\ Before(k).units[ran.commands[k].unit].lastBulletEpoch
              = Before(k).epoch - bulletDelay

\* a ShootCommand run one tick before the cooldown is over
C3_ShotOnCooldown ==
    \E k \in Steps :
        /\ ran.commands[k].type = "Shoot"
        /\ Alive(Before(k), ran.commands[k].unit)
        /\ Before(k).units[ran.commands[k].unit].lastBulletEpoch
              = Before(k).epoch - bulletDelay + 1

\* the advanced position of the bullet of a MoveBullet command, in the state it runs in
Advanced(k) ==
    LET bullet == Before(k).bullets[ran.commands[k].bullet]
    IN VAdd(bullet.position,
            SpeedTimesNormalized(VSub(bullet.endPosition, bullet.startPosition)))

\* the advanced position passes the outside-world, arrival and range checks
PassesChecks(k) ==
    LET bullet == Before(k).bullets[ran.commands[k].bullet]
        new == Advanced(k)
        start == bullet.startPosition
        end == bullet.endPosition
    IN /\ new[1] >= 0 /\ new[1] < Before(k).worldSize[1] * Scale
       /\ new[2] >= 0 /\ new[2] < Before(k).worldSize[2] * Scale
       /\ ~ /\ IF end[1] >= start[1] THEN new[1] >= end[1] ELSE new[1] <= end[1]
             /\ IF end[2] >= start[2] THEN new[2] >= end[2] ELSE new[2] <= end[2]
       /\ DistSq(new, start) < bulletRange * bulletRange * Scale * Scale

\* the live units, other than the firing one, in the cell the bullet samples
Targets(k) ==
    LET bullet == Before(k).bullets[ran.commands[k].bullet]
        sampled == CellOf(VAdd(Advanced(k), <<Scale \div 2, Scale \div 2>>))
    IN {i \in 1..Len(Before(k).units) :
          /\ i # bullet.unit
          /\ Alive(Before(k), i)
          /\ CellOf(Before(k).units[i].position) = sampled}

\* a MoveBullet command whose bullet has a direction
MovesBullet(k) ==
    /\ ran.commands[k].type = "MoveBullet"
    /\ Before(k).bullets[ran.commands[k].bullet].endPosition
          # Before(k).bullets[ran.commands[k].bullet].startPosition

(* C4: when the advanced position of a MoveBulletCommand passes the
   outside-world, arrival and range checks and its cell-centre sample falls
   in the cell of a live unit other than the firing unit, the command
   destroys the bullet and that unit and does not advance the bullet; and a
   bullet never destroys the unit that fired it.                            *)
C4_HitDestroysBoth ==
    \A k \in Steps :
        MovesBullet(k)
        => LET b == ran.commands[k].bullet
               owner == Before(k).bullets[b].unit
           IN /\ (PassesChecks(k) /\ Targets(k) # {})
                    => /\ After(k).bullets[b].status = "destroyed"
                       /\ After(k).bullets[b].position = Before(k).bullets[b].position
                       /\ \E i \in Targets(k) : ~Alive(After(k), i)
              /\ After(k).units[owner].status = Before(k).units[owner].status

\* no two units stand in one cell
NoSharedCell(g) ==
    \A i, j \in 1..Len(g.units) :
        i # j => CellOf(g.units[i].position) # CellOf(g.units[j].position)

\* C4 where no two units share a cell: the hit destroys the bullet and the one target
C4_HitDestroysBothIfNoSharedCell ==
    \A k \in Steps :
        (MovesBullet(k) /\ NoSharedCell(Before(k)))
        => LET b == ran.commands[k].bullet
               owner == Before(k).bullets[b].unit
           IN /\ (PassesChecks(k) /\ Targets(k) # {})
                    => /\ After(k).bullets[b].status = "destroyed"
                       /\ After(k).bullets[b].position = Before(k).bullets[b].position
                       /\ \A i \in Targets(k) : ~Alive(After(k), i)
              /\ After(k).units[owner].status = Before(k).units[owner].status

\* a bullet hit a unit in a world where no two units share a cell
C4_HitWithoutSharedCell ==
    \E k \in Steps :
        /\ MovesBullet(k) /\ NoSharedCell(Before(k))
        /\ PassesChecks(k) /\ Targets(k) # {}

\* the games a state shows: the current one and those the last update went through
Games == {game} \cup {ran.states[k] : k \in 1..Len(ran.states)}

\* the calls of unitDestroyed(unit) that observer has received in g
Received(g, observer, unit) ==
    {n \in 1..Len(g.notifications) :
        g.notifications[n] = [observer |-> observer, unit |-> unit]}

\* the units a command destroyed
Flipped(k) ==
    {i \in 1..Len(Before(k).units) : Alive(Before(k), i) /\ ~Alive(After(k), i)}

(* C5: between level loads every registered observer has received exactly
   one unitDestroyed call for each destroyed unit and none for a live unit;
   the calls for a unit are made by the command that destroys it, one per
   observer, in registration order.                                         *)
C5_OneNotificationPerDestroyedUnit ==
    /\ \A g \in Games :
        \A i \in 1..Len(g.units), o \in 1..Len(g.observers) :
            Cardinality(Received(g, g.observers[o], i))
                = IF Alive(g, i) THEN 0 ELSE 1
    /\ \A k \in Steps :
        ran.commands[k].type # "LoadLevel"
        => IF Flipped(k) = {}
           THEN After(k).notifications = Before(k).notifications
           ELSE \E i \in Flipped(k) :
                  /\ Flipped(k) = {i}
                  /\ After(k).notifications =
                        Before(k).notifications
                        \o [o \in 1..NumObservers |-> [observer |-> o, unit |-> i]]

\* C5's case: the last update destroyed a unit and the five observers were told
C5_Witness ==
    /\ lastOp = "updated"
    /\ \E k \in Steps : Flipped(k) # {}
    /\ Len(game.notifications) >= NumObservers

\* the player's unit is destroyed
Lost(g) == ~Alive(g, g.playerUnit)

\* the player's unit is alive and no other unit is
Won(g) ==
    /\ Alive(g, g.playerUnit)
    /\ \A i \in 1..Len(g.units) : i # g.playerUnit => ~Alive(g, i)

(* C6: at the end of every tick the game is over as a loss ("GAME OVER") if
   the player's unit is not alive, else as a win ("Victory !") if no other
   unit is alive, else it is not over; when the player's unit and the last
   live enemy are destroyed in the same tick the result is the loss.        *)
C6_GameOverEvaluation ==
    lastOp \in {"updated", "loaded"}
    => /\ Lost(game) => game.gameOver /\ overlayGameMode = "GAME OVER"
       /\ Won(game) => game.gameOver /\ overlayGameMode = "Victory !"
       /\ (~Lost(game) /\ ~Won(game))
            => ~game.gameOver /\ overlayGameMode \notin {"GAME OVER", "Victory !"}
       /\ (lastOp = "updated" /\ game.gameOver) => currentActiveMode = "Overlay"

\* C6's case: one tick destroyed the player's unit and the last live enemy
C6_Witness ==
    /\ lastOp = "updated"
    /\ Lost(game)
    /\ \A i \in 1..Len(game.units) : ~Alive(game, i)
    /\ Alive(Before(1), game.playerUnit)
    /\ \E i \in 1..Len(game.units) : i # game.playerUnit /\ Alive(Before(1), i)

\* a tick ended in a win
C6_WinReached == lastOp = "updated" /\ Won(game) /\ ~Won(Before(1))

(* C7: once the game is over it stays over, and no play frame, whatever its
   input, and no overlay operation changes a unit (position, orientation,
   weaponTarget, status, lastBulletEpoch) or the bullet list, or fails; only
   a level load ends this.                                                  *)
C7_FrozenWhenGameOver ==
    [][(/\ playGameMode = "PlayGameMode"
        /\ game.gameOver
        /\ lastOp' \notin {"loaded", "loadFailed"})
       => /\ playGameMode' = "PlayGameMode"
          /\ game'.gameOver
          /\ game'.units = game.units
          /\ game'.bullets = game.bullets]_vars

\* C7's case: a play frame with a click ran on a game that was over and still has both units
C7_Witness ==
    /\ lastOp = "updated"
    /\ Before(1).gameOver
    /\ Len(game.units) >= 2
    /\ lastInput.mouseClicked

(* C8, as the claim states it: after a level load that fails while a game
   exists, that game is still there and is exactly as it was.               *)
C8_FailedLoadKeepsGame ==
    (lastOp = "loadFailed" /\ Before(1).epoch > 0)
    => playGameMode = "PlayGameMode" /\ game = Before(1)

(* C8, amended: after a level load that fails, whether a game existed or
   not, there is no game (playGameMode is None), so no partially replaced
   GameState is in use, and the overlay shows "Level loading failed :-(".   *)
C8_FailedLoadAbandonsGame ==
    lastOp = "loadFailed"
    => /\ After(1).raised
       /\ playGameMode = "None"
       /\ game = NoGame
       /\ currentActiveMode = "Overlay"
       /\ overlayGameMode = "Level loading failed :-("

\* C8's case: a load failed on an existing game after it had replaced the units
C8_Witness ==
    /\ lastOp = "loadFailed"
    /\ Before(1).epoch > 0
    /\ After(1).units # Before(1).units

(* C9: an exception raised by a command of a tick does not end the main
   loop: the play session is abandoned (playGameMode is None), the overlay
   shows "Error during the game update..." and running is changed by nothing
   but a QUIT event of the same frame.                                      *)
C9_UpdateFailureAbandonsGame ==
    /\ (\E k \in 1..Len(ran.states) : ran.states[k].raised)
         => lastOp \in {"updateFailed", "loadFailed"}
    /\ lastOp = "updateFailed"
         => /\ ran.states[Len(ran.states)].raised
            /\ playGameMode = "None"
            /\ game = NoGame
            /\ currentActiveMode = "Overlay"
            /\ overlayGameMode = "Error during the game update..."
            /\ running = (lastInput.event # "quit")

\* C9's case: a MoveBullet command raised in the middle of a tick
C9_Witness ==
    /\ lastOp = "updateFailed"
    /\ running
    /\ ran.commands[Len(ran.states) - 1].type = "MoveBullet"
    /\ Len(ran.states) - 1 < Len(ran.commands)

(* C10: every completed update, a play frame's (also when the game is over)
   or a level load's, increases the epoch of the game by exactly 1 (a new
   game starts at 0, so its load leaves 1); no other operation changes it,
   and the epoch of a game never decreases.                                 *)
C10_EpochCountsUpdates ==
    [][/\ lastOp' \in {"updated", "loaded"}
            => game'.epoch = (IF playGameMode = "None" THEN 0 ELSE game.epoch) + 1
       /\ lastOp' \in {"showGame", "showMenu", "quit"}
            => game'.epoch = game.epoch
       /\ (playGameMode = "PlayGameMode" /\ playGameMode' = "PlayGameMode")
            => game'.epoch >= game.epoch]_vars

\* C10's case: a level load on a game that had run, and a frame of a game that was over
C10_Witness ==
    /\ lastOp = "loaded"
    /\ Before(1).epoch >= 2
    /\ Before(1).gameOver
    /\ game.epoch = Before(1).epoch + 1

\* the orientation a move vector (dx, dy) gives a unit that had orientation old
OrientationTable(old, dx, dy) ==
    CASE dy < 0 -> 0
      [] dy > 0 -> 180
      [] dy = 0 /\ dx < 0 -> 90
      [] dy = 0 /\ dx > 0 -> -90
      [] dy = 0 /\ dx = 0 -> old

\* position p of game g is inside the world and its cell holds no wall and no unit
Free(g, p) ==
    /\ p[1] >= 0 /\ CellOf(p)[1] < g.worldSize[1]
    /\ p[2] >= 0 /\ CellOf(p)[2] < g.worldSize[2]
    /\ CellOf(p) \notin g.walls
    /\ \A i \in 1..Len(g.units) : CellOf(g.units[i].position) # CellOf(p)

\* the queue r ran starts with a Move command on a live unit whose candidate is not free
MoveRejected(r) ==
    /\ Len(r.states) >= 2
    /\ r.commands[1].type = "Move"
    /\ Alive(r.states[1], r.commands[1].unit)
    /\ ~Free(r.states[1],
             VAdd(r.states[1].units[r.commands[1].unit].position,
                  Cell(r.commands[1].moveVector[1], r.commands[1].moveVector[2])))

(* C11: a MoveCommand that is rejected (candidate off the grid, in a wall or
   in an occupied cell) leaves the unit's position unchanged and sets its
   orientation from the move vector; running it again changes nothing more;
   and the same move given again in the next frame is rejected again.       *)
C11_RejectedMoveIdempotent ==
    [][/\ MoveRejected(ran')
            => LET before == ran'.states[1]
                   after == ran'.states[2]
                   u == ran'.commands[1].unit
                   mv == ran'.commands[1].moveVector
               IN /\ ~after.raised
                  /\ after.units[u].position = before.units[u].position
                  /\ after.units[u].orientation =
                        OrientationTable(before.units[u].orientation, mv[1], mv[2])
                  /\ MoveCommandRun(after, u, mv) = after
       /\ (/\ MoveRejected(ran)
           /\ lastOp' = "updated"
           /\ ~game.gameOver
           /\ lastInput'.moveVector = ran.commands[1].moveVector)
            => MoveRejected(ran')]_vars

\* C11's case: where every move is rejected (a wall below, a tower beside), a move
\* to the left is rejected by a unit that an earlier move to the left had turned
C11_Witness ==
    /\ lastOp = "updated"
    /\ game.walls # {}
    /\ MoveRejected(ran)
    /\ ran.commands[1].moveVector = <<-1, 0>>
    /\ ran.states[1].units[ran.commands[1].unit].orientation = 90
    /\ ran.states[2].units[ran.commands[1].unit].position
          = ran.states[1].units[ran.commands[1].unit].position

\* a rejected move that turned the unit
C11_RejectedMoveTurns ==
    /\ MoveRejected(ran)
    /\ ran.states[2].units[ran.commands[1].unit].orientation
          # ran.states[1].units[ran.commands[1].unit].orientation

\* the advanced position of step k is inside the world and short of the end position
\* on some axis, and its distance from the start position is bulletRange or more
OutOfRange(k) ==
    LET bullet == Before(k).bullets[ran.commands[k].bullet]
        new == Advanced(k)
        start == bullet.startPosition
        end == bullet.endPosition
    IN /\ new[1] >= 0 /\ new[1] < Before(k).worldSize[1] * Scale
       /\ new[2] >= 0 /\ new[2] < Before(k).worldSize[2] * Scale
       /\ ~ /\ IF end[1] >= start[1] THEN new[1] >= end[1] ELSE new[1] <= end[1]
             /\ IF end[2] >= start[2] THEN new[2] >= end[2] ELSE new[2] <= end[2]
       /\ DistSq(new, start) >= bulletRange * bulletRange * Scale * Scale

(* C12: no live bullet is ever at a distance of bulletRange or more from its
   startPosition: the MoveBulletCommand whose advanced position reaches that
   distance destroys the bullet and does not advance it, even though the
   bullet has not reached its endPosition.                                   *)
C12_LiveBulletWithinRange ==
    /\ \A g \in Games :
        \A b \in 1..Len(g.bullets) :
            g.bullets[b].status = "alive"
            => DistSq(g.bullets[b].position, g.bullets[b].startPosition)
                  < bulletRange * bulletRange * Scale * Scale
    /\ \A k \in Steps :
        (MovesBullet(k) /\ OutOfRange(k))
        => /\ After(k).bullets[ran.commands[k].bullet].status = "destroyed"
           /\ After(k).bullets[ran.commands[k].bullet].position
                 = Before(k).bullets[ran.commands[k].bullet].position

\* C12's case: a bullet aimed at a point farther than bulletRange is destroyed by the
\* advance that would take it to that distance, short of its end position
C12_Witness ==
    /\ lastOp = "updated"
    /\ \E k \in Steps :
        /\ MovesBullet(k) /\ OutOfRange(k)
        /\ Before(k).bullets[ran.commands[k].bullet].status = "alive"
        /\ After(k).bullets[ran.commands[k].bullet].status = "destroyed"

\* the same on a diagonal flight
C12_DiagonalFlightOutOfRange ==
    \E k \in Steps :
        /\ MovesBullet(k) /\ OutOfRange(k)
        /\ Advanced(k)[1] > 0 /\ Advanced(k)[2] > 0

\* a bullet aimed at a point nearer than bulletRange is destroyed at its end position
C12_ArrivalWithinRange ==
    \E k \in Steps :
        /\ MovesBullet(k) /\ ~OutOfRange(k)
        /\ After(k).bullets[ran.commands[k].bullet].status = "destroyed"
        /\ Advanced(k) = Before(k).bullets[ran.commands[k].bullet].endPosition

\* from game a to game b the units list keeps its length and its order, and no
\* destroyed unit is alive again; mover is the unit that may have changed cell (0: none)
UnitsKept(a, b, mover) ==
    /\ Len(b.units) = Len(a.units)
    /\ \A i \in 1..Len(a.units) :
        /\ b.units[i].status \in {"alive", "destroyed"}
        /\ a.units[i].status = "destroyed" => b.units[i].status = "destroyed"
        /\ i # mover => b.units[i].position = a.units[i].position

(* C13: between level loads the units list never loses, gains or reorders an
   element: no command of a tick other than LoadLevel and no operation of the
   main loop other than a level load does; a destroyed unit stays in the
   list with status destroyed, and a status only changes from alive to
   destroyed.  (A tick that raises abandons the game with its list.)         *)
C13_UnitsListStable ==
    [][/\ \A k \in 1..(Len(ran'.states) - 1) :
            ran'.commands[k].type # "LoadLevel"
            => UnitsKept(ran'.states[k], ran'.states[k + 1],
                         IF ran'.commands[k].type = "Move"
                         THEN ran'.commands[k].unit ELSE 0)
       /\ lastOp' \notin {"loaded", "loadFailed", "updateFailed"}
            => UnitsKept(game, game', game.playerUnit)]_vars

\* C13's case: a tick on a game that held a destroyed unit deleted a destroyed bullet
\* and left the three units in the list
C13_Witness ==
    /\ lastOp = "updated"
    /\ Len(game.units) = 3
    /\ \E i \in 1..Len(game.units) :
        /\ ~Alive(Before(1), i) /\ ~Alive(game, i)
        /\ game.units[i].position = Before(1).units[i].position
    /\ \E k \in Steps :
        /\ ran.commands[k].type = "DeleteDestroyed"
        /\ Len(After(k).bullets) < Len(Before(k).bullets)

\* the indices of the live items of a list
LiveItems(list) == {i \in 1..Len(list) : list[i].status = "alive"}

(* C14: DeleteDestroyedCommand leaves in its list, the bullet list of the
   game, exactly the items whose status was alive, each unchanged and in
   their original relative order, and changes nothing else of the game.      *)
C14_DeleteDestroyedKeepsLiveInOrder ==
    \A k \in Steps :
        ran.commands[k].type = "DeleteDestroyed"
        => LET old == Before(k).bullets
               new == After(k).bullets
           IN /\ Len(new) = Cardinality(LiveItems(old))
              /\ \A i \in LiveItems(old) :
                    new[Cardinality({j \in LiveItems(old) : j <= i})] = old[i]
              /\ After(k) = [Before(k) EXCEPT !.bullets = new]

\* C14's case: a destroyed bullet between two live ones was deleted from the list
C14_Witness ==
    /\ lastOp = "updated"
    /\ \E k \in Steps :
        /\ ran.commands[k].type = "DeleteDestroyed"
        /\ \E i \in 2..(Len(Before(k).bullets) - 1) :
            /\ Before(k).bullets[i].status = "destroyed"
            /\ Before(k).bullets[i - 1].status = "alive"
            /\ Before(k).bullets[i + 1].status = "alive"
            /\ After(k).bullets[i - 1] = Before(k).bullets[i - 1]
            /\ After(k).bullets[i] = Before(k).bullets[i + 1]

\* a DeleteDestroyedCommand deleted two bullets at once
C14_TwoDeleted ==
    \E k \in Steps :
        /\ ran.commands[k].type = "DeleteDestroyed"
        /\ Len(After(k).bullets) + 2 <= Len(Before(k).bullets)

\* d is bulletSpeed times the unit vector of delta, to the rounding of the coordinates:
\* it points the way of delta, lies along it, and has length bulletSpeed
IsSpeedTimesUnitVector(d, delta) ==
    /\ d[1] * delta[1] + d[2] * delta[2] > 0
    /\ Abs(d[1] * delta[2] - d[2] * delta[1]) <= Abs(delta[1]) + Abs(delta[2])
    /\ d[1] * d[1] + d[2] * d[2] >= (bulletSpeed - 1) * (bulletSpeed - 1)
    /\ d[1] * d[1] + d[2] * d[2] <= (bulletSpeed + 1) * (bulletSpeed + 1)

\* step k advanced its bullet
AdvancesBullet(k) ==
    /\ ran.commands[k].type = "MoveBullet"
    /\ After(k).bullets[ran.commands[k].bullet].position
          # Before(k).bullets[ran.commands[k].bullet].position

(* C15: a bullet's startPosition and endPosition (and its firing unit) never
   change after it is created, whatever its firing unit and the unit it was
   aimed at do later; only its own MoveBulletCommand changes its position,
   and every advance is the same vector: bulletSpeed times the unit vector
   from startPosition toward endPosition.                                    *)
C15_BulletDirectionFixed ==
    /\ \A k \in Steps :
        LET cmd == ran.commands[k]
            old == Before(k).bullets
            new == After(k).bullets
        IN CASE cmd.type = "LoadLevel" -> TRUE
             [] cmd.type = "DeleteDestroyed" ->
                    \A b \in 1..Len(new) : \E a \in 1..Len(old) : new[b] = old[a]
             [] OTHER ->
                    /\ Len(new) >= Len(old)
                    /\ \A b \in 1..Len(old) :
                        /\ new[b].startPosition = old[b].startPosition
                        /\ new[b].endPosition = old[b].endPosition
                        /\ new[b].unit = old[b].unit
                        /\ new[b].position # old[b].position
                             => /\ cmd.type = "MoveBullet" /\ cmd.bullet = b
                                /\ IsSpeedTimesUnitVector(
                                       VSub(new[b].position, old[b].position),
                                       VSub(old[b].endPosition, old[b].startPosition))
    /\ \A g \in Games :
        \A b \in 1..Len(g.bullets) :
            LET d == VSub(g.bullets[b].position, g.bullets[b].startPosition)
            IN \E n \in 0..((bulletRange * Scale) \div bulletSpeed) :
                IF n = 0 THEN d = <<0, 0>>
                ELSE /\ d[1] % n = 0 /\ d[2] % n = 0
                     /\ IsSpeedTimesUnitVector(
                            <<d[1] \div n, d[2] \div n>>,
                            VSub(g.bullets[b].endPosition, g.bullets[b].startPosition))

\* C15's case: a bullet of the player's unit advanced after that unit had left the
\* cell it fired from, and a bullet of a tower advanced after the player's unit had
\* left the cell the bullet is aimed at and the tower had been aimed at the new cell
C15_Witness ==
    /\ lastOp = "updated"
    /\ \E k \in Steps :
        /\ AdvancesBullet(k)
        /\ Before(k).bullets[ran.commands[k].bullet].unit = Before(k).playerUnit
        /\ Before(k).units[Before(k).playerUnit].position
              # Before(k).bullets[ran.commands[k].bullet].startPosition
    /\ \E k \in Steps :
        LET bullet == Before(k).bullets[ran.commands[k].bullet]
        IN /\ AdvancesBullet(k)
           /\ bullet.unit # Before(k).playerUnit
           /\ Before(k).units[Before(k).playerUnit].position # bullet.endPosition
           /\ Before(k).units[bullet.unit].weaponTarget # bullet.endPosition

\* a bullet of the player's unit advanced after the pointer had been moved
C15_PlayerRetargeted ==
    \E k \in Steps :
        LET bullet == Before(k).bullets[ran.commands[k].bullet]
        IN /\ AdvancesBullet(k)
           /\ bullet.unit = Before(k).playerUnit
           /\ Before(k).units[bullet.unit].weaponTarget # bullet.endPosition

\* the place of a command in the order of a tick, for the player's unit p
Phase(cmd, p) ==
    CASE cmd.type = "Move" /\ cmd.unit = p -> 1
      [] cmd.type = "Target" /\ cmd.unit = p -> 2
      [] cmd.type = "Shoot" /\ cmd.unit = p -> 3
      [] cmd.type = "Target" /\ cmd.unit # p -> 4
      [] cmd.type = "Shoot" /\ cmd.unit # p -> 4
      [] cmd.type = "MoveBullet" -> 5
      [] cmd.type = "DeleteDestroyed" -> 6
      [] OTHER -> 0

\* the positions in queue q of the commands of a type on a unit
CommandsOn(q, type, unit) ==
    {k \in 1..Len(q) : q[k].type = type /\ q[k].unit = unit}

\* queue q is in the order of a tick of game g with this input
InTickOrder(q, g, input) ==
    LET p == g.playerUnit
        bulletCommands == {k \in 1..Len(q) : q[k].type = "MoveBullet"}
    IN /\ \A k \in 1..Len(q) : Phase(q[k], p) # 0
       /\ \A j, k \in 1..Len(q) : j < k => Phase(q[j], p) <= Phase(q[k], p)
       /\ Cardinality(CommandsOn(q, "Move", p))
             = IF input.moveVector # <<0, 0>> THEN 1 ELSE 0
       /\ \A k \in CommandsOn(q, "Move", p) : q[k].moveVector = input.moveVector
       /\ Cardinality(CommandsOn(q, "Target", p)) = 1
       /\ Cardinality(CommandsOn(q, "Shoot", p)) = IF input.mouseClicked THEN 1 ELSE 0
       /\ \A i \in 1..Len(g.units) :
            i # p => /\ Cardinality(CommandsOn(q, "Target", i)) = 1
                     /\ Cardinality(CommandsOn(q, "Shoot", i)) <= 1
                     /\ \A t \in CommandsOn(q, "Target", i) :
                          /\ \A s \in CommandsOn(q, "Shoot", i) : s = t + 1
                          /\ \A j \in 1..Len(g.units) :
                                (j # p /\ j < i)
                                => \A o \in CommandsOn(q, "Target", j) : o < t
       /\ Cardinality(bulletCommands) = Len(g.bullets)
       /\ \A j, k \in bulletCommands : j < k => q[j].bullet < q[k].bullet
       /\ \A k \in bulletCommands : q[k].bullet \in 1..Len(g.bullets)
       /\ Len(q) >= 1 /\ q[Len(q)].type = "DeleteDestroyed"
       /\ \A k \in 1..(Len(q) - 1) : q[k].type # "DeleteDestroyed"

(* C16: the commands of a tick run in the order they were queued: the
   player's Move (if a key was pressed), Target and Shoot (if the button
   was clicked), then for each other unit in list order its Target followed
   by its Shoot, then one MoveBullet per bullet in list order, then
   DeleteDestroyed; every command runs on the game the one before it left;
   the epoch is the same for all of them and is incremented once they have
   all run; and the queue is empty after the tick.                           *)
C16_CommandsRunInQueueOrder ==
    /\ playGameMode = "PlayGameMode" => game.commands = <<>>
    /\ \A k \in Steps :
        /\ Before(k).commands = ran.commands
        /\ After(k) = RunCommand(Before(k), ran.commands[k])
        /\ After(k).epoch = Before(1).epoch
    /\ lastOp = "updated"
         => /\ Len(ran.states) = Len(ran.commands) + 1
            /\ game.epoch = Before(1).epoch + 1
            /\ IF Before(1).gameOver THEN ran.commands = <<>>
               ELSE InTickOrder(ran.commands,
                                [Before(1) EXCEPT !.commands = <<>>], lastInput)

\* C16's case: a tick with a key pressed and the button clicked, two other units
\* that both shoot, and two bullets in flight
C16_Witness ==
    /\ lastOp = "updated"
    /\ lastInput.moveVector # <<0, 0>> /\ lastInput.mouseClicked
    /\ Len(Before(1).units) = 3
    /\ Len(Before(1).bullets) >= 2
    /\ Cardinality({k \in 1..Len(ran.commands) : ran.commands[k].type = "Shoot"}) = 3

(* C17: for every position p, isInside(p) is true exactly when
   0 <= p.x < width and 0 <= p.y < height.                                   *)
C17_IsInsideHalfOpen ==
    \A k \in Steps :
        ran.commands[k].type = "isInside"
        => LET p == ran.commands[k].position
               width == Before(k).worldSize[1] * Scale
               height == Before(k).worldSize[2] * Scale
           IN /\ lastOp \in {"inside", "outside"}
              /\ lastOp = "inside"
                    <=> (0 <= p[1] /\ p[1] < width /\ 0 <= p[2] /\ p[2] < height)
              /\ (p[1] < 0 \/ p[1] >= width \/ p[2] < 0 \/ p[2] >= height)
                    => lastOp = "outside"

\* C17's case: isInside returned false for a position on the far limit of one axis
\* only, in a world wider than high
C17_Witness ==
    /\ lastOp = "outside"
    /\ game.worldSize[1] # game.worldSize[2]
    /\ ran.commands[1].position[1] \in 0..(game.worldSize[1] * Scale - 1)
    /\ ran.commands[1].position[2] = game.worldSize[2] * Scale

\* isInside returned true for a position just inside the far limits
C17_InsideAtLimit ==
    /\ lastOp = "inside"
    /\ ran.commands[1].position
          = <<game.worldSize[1] * Scale - 1, game.worldSize[2] * Scale - 1>>

\* isInside returned false for a position just below zero on one axis
C17_OutsideBelowZero ==
    /\ lastOp = "outside"
    /\ ran.commands[1].position = <<-1, 0>>

\* step k is a Move or a Shoot command on a unit that is not alive
OnDestroyedUnit(k) ==
    /\ ran.commands[k].type \in {"Move", "Shoot"}
    /\ ~Alive(Before(k), ran.commands[k].unit)

(* C19: MoveCommand and ShootCommand on a unit that is not alive raise
   nothing and change nothing of the game; and no command other than a level
   load changes the position, the orientation or the lastBulletEpoch of a
   unit that is not alive, or adds a bullet fired by such a unit.            *)
C19_DestroyedUnitInert ==
    \A k \in Steps :
        /\ OnDestroyedUnit(k) => After(k) = Before(k) /\ ~After(k).raised
        /\ ran.commands[k].type \in {"Move", "Target", "Shoot", "MoveBullet",
                                     "DeleteDestroyed"}
             => /\ \A i \in 1..Len(Before(k).units) :
                    ~Alive(Before(k), i)
                    => /\ After(k).units[i].position = Before(k).units[i].position
                       /\ After(k).units[i].orientation = Before(k).units[i].orientation
                       /\ After(k).units[i].lastBulletEpoch
                             = Before(k).units[i].lastBulletEpoch
                /\ Len(After(k).bullets) > Len(Before(k).bullets)
                     => Alive(Before(k), After(k).bullets[Len(After(k).bullets)].unit)

\* C19's case: a MoveCommand ran on a destroyed unit beside a free cell, with a move
\* vector that would have turned it and taken it there
C19_Witness ==
    /\ lastOp = "command"
    /\ ran.commands[1].type = "Move"
    /\ ~Alive(Before(1), ran.commands[1].unit)
    /\ Free(Before(1), VAdd(Before(1).units[ran.commands[1].unit].position,
                            Cell(ran.commands[1].moveVector[1],
                                 ran.commands[1].moveVector[2])))
    /\ OrientationTable(Before(1).units[ran.commands[1].unit].orientation,
                        ran.commands[1].moveVector[1], ran.commands[1].moveVector[2])
          # Before(1).units[ran.commands[1].unit].orientation

\* a ShootCommand ran on a destroyed unit whose cooldown was over
C19_DestroyedUnitShoots ==
    \E k \in Steps :
        /\ ran.commands[k].type = "Shoot"
        /\ ~Alive(Before(k), ran.commands[k].unit)
        /\ Before(k).epoch - Before(k).units[ran.commands[k].unit].lastBulletEpoch
              >= bulletDelay

(* C20: MoveCommand on a live unit sets the orientation to 90 for dx < 0 and
   dy = 0, to -90 for dx > 0 and dy = 0, to 0 for dy < 0 and to 180 for
   dy > 0 whatever dx is, and leaves it unchanged for the zero vector.       *)
C20_OrientationTable ==
    \A k \in Steps :
        (ran.commands[k].type = "Move" /\ Alive(Before(k), ran.commands[k].unit))
        => LET dx == ran.commands[k].moveVector[1]
               dy == ran.commands[k].moveVector[2]
               old == Before(k).units[ran.commands[k].unit].orientation
               new == After(k).units[ran.commands[k].unit].orientation
           IN /\ (dx < 0 /\ dy = 0) => new = 90
              /\ (dx > 0 /\ dy = 0) => new = -90
              /\ dy < 0 => new = 0
              /\ dy > 0 => new = 180
              /\ (dx = 0 /\ dy = 0) => new = old

\* C20's case: a diagonal move down turned a live unit to 180
C20_Witness ==
    /\ lastOp = "command"
    /\ ran.commands[1].type = "Move"
    /\ Alive(Before(1), ran.commands[1].unit)
    /\ ran.commands[1].moveVector[1] # 0
    /\ ran.commands[1].moveVector[2] > 0
    /\ Before(1).units[ran.commands[1].unit].orientation = 90
    /\ game.units[ran.commands[1].unit].orientation = 180

\* the zero vector left a live unit turned to the left
C20_ZeroVectorKeeps ==
    /\ lastOp = "command"
    /\ ran.commands[1].type = "Move"
    /\ Alive(Before(1), ran.commands[1].unit)
    /\ ran.commands[1].moveVector = <<0, 0>>
    /\ game.units[ran.commands[1].unit].orientation = 90

\* a diagonal move up turned a live unit to 0
C20_DiagonalUp ==
    /\ lastOp = "command"
    /\ ran.commands[1].type = "Move"
    /\ Alive(Before(1), ran.commands[1].unit)
    /\ ran.commands[1].moveVector = <<-1, -1>>
    /\ Before(1).units[ran.commands[1].unit].orientation = 90
    /\ game.units[ran.commands[1].unit].orientation = 0


\* the player's unit is in the cell the duel level puts it in
InLoadedCell(g) == g.units[g.playerUnit].position = Cell(1, 0)

\* a standoff: the game is not over, no unit is destroyed, every other unit is
\* farther than bulletRange from the player's unit and no bullet is in flight
Standoff(g) ==
    /\ ~g.gameOver
    /\ g.bullets = <<>>
    /\ \A i \in 1..Len(g.units) :
        /\ Alive(g, i)
        /\ i # g.playerUnit
             => DistSq(g.units[i].position, g.units[g.playerUnit].position)
                   > bulletRange * bulletRange * Scale * Scale

(* C18, as the claim states it: from the load of a level with one tank and
   one tower within bulletRange of each other and no wall, the repeated ticks
   eventually reach a game that is over.                                     *)
C18_GameOverEventually ==
    (lastOp = "loaded") ~> (playGameMode = "PlayGameMode" /\ game.gameOver)

(* C18, amended: from such a level the repeated ticks reach a game that is
   over if the player's unit stays in its cell; the game after a tick is a
   function of the game before it and of the input of the frame; and a
   standoff (the player's unit out of the tower's range, no bullet in
   flight) lasts as long as the player neither moves nor clicks, so that
   game over is not reached for every sequence of inputs. Both units stay in
   the list of units throughout.                                             *)
C18_GameOverIfPlayerStays ==
    /\ (lastOp = "loaded")
          ~> (playGameMode = "PlayGameMode" /\ (game.gameOver \/ ~InLoadedCell(game)))
    /\ [](playGameMode = "PlayGameMode" => Len(game.units) = 2)
    /\ [][/\ lastOp' = "updated"
               => game' = update(game, processInput(game, lastInput'.moveVector,
                                                    lastInput'.mousePos,
                                                    lastInput'.mouseClicked)).game
          /\ (/\ Standoff(game)
              /\ lastOp' = "updated"
              /\ lastInput'.moveVector = <<0, 0>>
              /\ ~lastInput'.mouseClicked)
               => Standoff(game') /\ game'.epoch = game.epoch + 1]_vars

\* C18's case: the player's unit never left its cell nor turned, and the tower's
\* bullet destroyed it: the game is over and both units are still in the list
C18_Witness ==
    /\ lastOp = "updated"
    /\ game.gameOver /\ Lost(game)
    /\ InLoadedCell(game)
    /\ game.units[game.playerUnit].orientation = 0
    /\ Len(game.units) = 2
    /\ overlayGameMode = "GAME OVER"

\* the player's unit stayed and its bullet destroyed the tower first
C18_WinReached ==
    /\ lastOp = "updated"
    /\ game.gameOver /\ Won(game)
    /\ InLoadedCell(game)

\* the player's unit stepped out of range and the bullets in flight are gone
C18_StandoffReached ==
    /\ lastOp = "updated"
    /\ Standoff(game)
    /\ game.epoch > ((bulletRange * Scale) \div bulletSpeed)

\* the advanced position of step k is outside the world
OutsideWorld(k) ==
    LET new == Advanced(k)
    IN ~ /\ new[1] >= 0 /\ new[1] < Before(k).worldSize[1] * Scale
         /\ new[2] >= 0 /\ new[2] < Before(k).worldSize[2] * Scale

\* on one axis, the advanced position of step k has reached or crossed the end
\* position, in the direction of the flight
PassedEnd(k, axis) ==
    LET bullet == Before(k).bullets[ran.commands[k].bullet]
    IN IF bullet.endPosition[axis] >= bullet.startPosition[axis]
       THEN Advanced(k)[axis] >= bullet.endPosition[axis]
       ELSE Advanced(k)[axis] <= bullet.endPosition[axis]

\* the advanced position of step k is inside the world and has reached or crossed
\* the end position on both axes
Arrived(k) == ~OutsideWorld(k) /\ PassedEnd(k, 1) /\ PassedEnd(k, 2)

(* C21: a MoveBulletCommand whose advanced position is outside the world, or
   else has reached or crossed endPosition on both axes, or else is at
   bulletRange or more from startPosition, sets the bullet's status to
   destroyed and changes nothing else: the position is not updated and no unit
   is hit, even when a live unit stands in the sampled cell. Every bullet of
   the bullet list of a game has a position inside the world (a game whose
   level load has raised is abandoned half replaced, and is not counted). A
   bullet that has passed endPosition on one axis only, inside the world,
   within range and with no unit to hit, is advanced and stays alive.         *)
C21_BulletDestroyedBeforeHitTest ==
    /\ \A k \in Steps :
        MovesBullet(k)
        => LET b == ran.commands[k].bullet
           IN /\ (OutsideWorld(k) \/ Arrived(k) \/ OutOfRange(k))
                   => After(k) = [Before(k) EXCEPT !.bullets[b].status = "destroyed"]
              /\ (/\ ~OutsideWorld(k)
                  /\ PassedEnd(k, 1) # PassedEnd(k, 2)
                  /\ ~OutOfRange(k)
                  /\ Targets(k) = {})
                   => After(k) = [Before(k) EXCEPT !.bullets[b].position = Advanced(k)]
    /\ \A g \in Games :
        ~g.raised
        => \A b \in 1..Len(g.bullets) :
            /\ g.bullets[b].position[1] >= 0
            /\ g.bullets[b].position[1] < g.worldSize[1] * Scale
            /\ g.bullets[b].position[2] >= 0
            /\ g.bullets[b].position[2] < g.worldSize[2] * Scale

\* C21's case: a bullet arrived at its end position while a live unit other than
\* the firing one stood in the cell it sampled: the bullet was destroyed where it
\* was and the unit lives
C21_Witness ==
    /\ lastOp = "updated"
    /\ \E k \in Steps :
        /\ MovesBullet(k) /\ Arrived(k) /\ Targets(k) # {}
        /\ Before(k).bullets[ran.commands[k].bullet].status = "alive"
        /\ After(k).bullets[ran.commands[k].bullet].status = "destroyed"
        /\ After(k).bullets[ran.commands[k].bullet].position
              = Before(k).bullets[ran.commands[k].bullet].position
        /\ \A i \in Targets(k) : Alive(After(k), i)

\* a bullet aimed at a point outside the world was destroyed by the advance that
\* would have left the world
C21_LeftWorld ==
    \E k \in Steps :
        /\ MovesBullet(k) /\ OutsideWorld(k)
        /\ After(k).bullets[ran.commands[k].bullet].status = "destroyed"

\* a bullet was destroyed at bulletRange, short of its end position
C21_RangeReached ==
    \E k \in Steps :
        /\ MovesBullet(k) /\ OutOfRange(k)
        /\ After(k).bullets[ran.commands[k].bullet].status = "destroyed"

\* a bullet that had passed its end position on one axis only was advanced: it
\* flies along the row of its target
C21_OneAxisPassed ==
    \E k \in Steps :
        /\ MovesBullet(k) /\ PassedEnd(k, 1) # PassedEnd(k, 2)
        /\ After(k).bullets[ran.commands[k].bullet].position = Advanced(k)

\* unit is within bulletRange of the player's unit of game g
InRangeOfPlayer(g, unit) ==
    DistSq(g.units[unit].position, g.units[g.playerUnit].position)
       <= bulletRange * bulletRange * Scale * Scale

\* step k is the ShootCommand of a unit other than the player's, and it creates a bullet
TowerFires(k) ==
    /\ ran.commands[k].type = "Shoot"
    /\ ran.commands[k].unit # Before(k).playerUnit
    /\ Len(After(k).bullets) = Len(Before(k).bullets) + 1

(* C22, as the claim states it: in a tick of a game that is not over, the
   TargetCommand of a unit other than the player's sets its weaponTarget to
   the position the player's unit has when the command runs, and a unit
   other than the player's creates a bullet only if it is within bulletRange
   of the player's unit when it shoots.                                      *)
C22_TowersAimAtCurrentPosition ==
    lastOp = "updated"
    => \A k \in Steps :
        /\ (ran.commands[k].type = "Target"
            /\ ran.commands[k].unit # Before(k).playerUnit)
             => After(k).units[ran.commands[k].unit].weaponTarget
                   = Before(k).units[Before(k).playerUnit].position
        /\ TowerFires(k) => InRangeOfPlayer(Before(k), ran.commands[k].unit)

(* C22, amended: the position is the one the player's unit has at the start
   of the tick, before the tick's MoveCommand runs. After a tick of a game
   that was not over, the weaponTarget of every unit other than the player's
   is that position; a unit other than the player's creates a bullet in the
   tick only if it is within bulletRange of that position, and that bullet
   is aimed at that position.                                                *)
C22_TowersAimAtPositionBeforeMove ==
    (lastOp = "updated" /\ ~Before(1).gameOver)
    => LET start == Before(1)
           player == start.units[start.playerUnit].position
       IN /\ \A i \in 1..Len(game.units) :
               i # game.playerUnit => game.units[i].weaponTarget = player
          /\ \A k \in Steps :
               /\ Len(After(k).bullets) > Len(Before(k).bullets)
                    => ran.commands[k].type = "Shoot"
               /\ TowerFires(k)
                    => /\ InRangeOfPlayer(start, ran.commands[k].unit)
                       /\ After(k).bullets[Len(After(k).bullets)].endPosition = player

\* C22's case: the player's unit stepped out of the tower's range in the tick in
\* which the tower fired: the bullet is aimed at the cell the player's unit left
C22_Witness ==
    /\ lastOp = "updated"
    /\ ~Before(1).gameOver
    /\ game.units[game.playerUnit].position
          # Before(1).units[Before(1).playerUnit].position
    /\ \E k \in Steps :
        /\ TowerFires(k)
        /\ ~InRangeOfPlayer(Before(k), ran.commands[k].unit)
        /\ InRangeOfPlayer(Before(1), ran.commands[k].unit)

\* a tower whose cooldown had elapsed did not fire: the player's unit was out of
\* its range at the start of the tick
C22_OutOfRangeHoldsFire ==
    /\ lastOp = "updated"
    /\ ~Before(1).gameOver
    /\ \E i \in 1..Len(game.units) :
        /\ i # game.playerUnit
        /\ Alive(Before(1), i)
        /\ Before(1).epoch - Before(1).units[i].lastBulletEpoch >= bulletDelay
        /\ ~InRangeOfPlayer(Before(1), i)
        /\ game.units[i].lastBulletEpoch = Before(1).units[i].lastBulletEpoch
        /\ \A k \in Steps : ran.commands[k].type = "Shoot" => ran.commands[k].unit # i

\* an item of a list DeleteDestroyedCommand keeps
IsAlive(item) == item.status = "alive"

\* the game before the last command of the last update
BeforeLast == ran.states[Len(ran.states) - 1]

(* C23: no bullet of the bullet list of a game is destroyed between two
   ticks. In a tick of a game that is not over, the commands before the last
   one keep every bullet at its index, the last command is the
   DeleteDestroyedCommand of the bullet list, and the bullet list at the end
   of the tick is the list before that command without its destroyed
   bullets, the others in their order.                                       *)
C23_NoDestroyedBulletAfterTick ==
    /\ \A b \in 1..Len(game.bullets) : game.bullets[b].status = "alive"
    /\ (lastOp = "updated" /\ ~Before(1).gameOver)
         => /\ ran.commands[Len(ran.commands)].type = "DeleteDestroyed"
            /\ Len(ran.states) = Len(ran.commands) + 1
            /\ \A b \in 1..Len(Before(1).bullets) :
                 /\ BeforeLast.bullets[b].unit = Before(1).bullets[b].unit
                 /\ BeforeLast.bullets[b].startPosition
                       = Before(1).bullets[b].startPosition
                 /\ BeforeLast.bullets[b].endPosition = Before(1).bullets[b].endPosition
            /\ game.bullets = SelectSeq(BeforeLast.bullets, IsAlive)

\* C23's case: in one tick the first bullet of the list was destroyed and a later
\* one was not: at the end of the tick the later one is the first of the list
C23_Witness ==
    /\ lastOp = "updated"
    /\ ~Before(1).gameOver
    /\ Len(Before(1).bullets) >= 2
    /\ Before(1).bullets[1].status = "alive"
    /\ BeforeLast.bullets[1].status = "destroyed"
    /\ BeforeLast.bullets[2].status = "alive"
    /\ game.bullets[1] = BeforeLast.bullets[2]

(* C24: no game holds a bullet whose endPosition is its startPosition, and no
   tick of a loaded game raises an exception.                                *)
C24_NoBulletWithoutDirection ==
    /\ \A g \in Games :
        \A b \in 1..Len(g.bullets) :
            g.bullets[b].endPosition # g.bullets[b].startPosition
    /\ lastOp # "updateFailed"

\* a click with the pointer on the centre of the cell of the player's unit created a
\* bullet whose endPosition is its startPosition
C24_ShotAtOwnCell ==
    /\ lastOp = "updated"
    /\ lastInput.mouseClicked
    /\ \E b \in 1..Len(game.bullets) :
        /\ game.bullets[b].unit = game.playerUnit
        /\ game.bullets[b].endPosition = game.bullets[b].startPosition
        /\ TargetCell(lastInput.mousePos) = game.units[game.playerUnit].position

\* the MoveBulletCommand of such a bullet raised, and the game was abandoned
C24_TickRaised ==
    /\ lastOp = "updateFailed"
    /\ playGameMode = "None"
    /\ \E k \in 1..(Len(ran.states) - 1) :
        /\ ran.commands[k].type = "MoveBullet"
        /\ Before(k).bullets[ran.commands[k].bullet].endPosition
              = Before(k).bullets[ran.commands[k].bullet].startPosition
        /\ After(k).raised

\* the steps of the commands q that are the MoveBulletCommand of the bullet at index b
MovesOf(q, b) == {k \in 1..Len(q) : q[k].type = "MoveBullet" /\ q[k].bullet = b}

(* C25: in a tick of a game that is not over, the MoveBulletCommands are those
   of the bullets the list held before the tick, one for each, so that a
   bullet created in the tick before is moved for the first time in this one
   and a bullet created in this tick is not moved in it. The command that
   adds a bullet to the list is a ShootCommand; the bullet is alive at the
   position the firing unit has when the command runs, and it is in the
   list, unchanged, at the end of the tick.                                  *)
C25_NewBulletMovesNextTick ==
    [][(lastOp' = "updated" /\ playGameMode = "PlayGameMode" /\ ~game.gameOver)
        => LET q == ran'.commands
               s == ran'.states
           IN /\ \A b \in 1..Len(game.bullets) : Cardinality(MovesOf(q, b)) = 1
              /\ \A k \in 1..Len(q) :
                    q[k].type = "MoveBullet" => q[k].bullet \in 1..Len(game.bullets)
              /\ \A k \in 1..(Len(s) - 1) :
                    Len(s[k + 1].bullets) > Len(s[k].bullets)
                    => LET bullet == s[k + 1].bullets[Len(s[k + 1].bullets)]
                       IN /\ q[k].type = "Shoot"
                          /\ Len(s[k + 1].bullets) = Len(s[k].bullets) + 1
                          /\ bullet.status = "alive"
                          /\ bullet.unit = q[k].unit
                          /\ bullet.position = s[k].units[q[k].unit].position
                          /\ bullet.startPosition = bullet.position
                          /\ \E b \in 1..Len(game'.bullets) : game'.bullets[b] = bullet]_vars

\* C25's case: in one tick the player's unit moved and then fired: the new bullet is
\* at the cell the unit moved to, no MoveBulletCommand of the tick was for it, and
\* a tower's bullet of an earlier tick was moved
C25_Witness ==
    /\ lastOp = "updated"
    /\ \E k \in Steps :
        /\ ran.commands[k].type = "Shoot"
        /\ ran.commands[k].unit = Before(k).playerUnit
        /\ Len(After(k).bullets) = Len(Before(k).bullets) + 1
        /\ Before(k).units[Before(k).playerUnit].position
              # Before(1).units[Before(1).playerUnit].position
        /\ MovesOf(ran.commands, Len(After(k).bullets)) = {}
        /\ \E b \in 1..Len(game.bullets) :
            /\ game.bullets[b].unit = game.playerUnit
            /\ game.bullets[b].position = game.units[game.playerUnit].position
    /\ \E b \in 1..Len(Before(1).bullets) : MovesOf(ran.commands, b) # {}

\* the bullet a unit fired in one tick was moved for the first time in the next one
C25_FirstMoveInNextTick ==
    /\ lastOp = "updated"
    /\ \E k \in Steps :
        LET bullet == Before(k).bullets[ran.commands[k].bullet]
        IN /\ ran.commands[k].type = "MoveBullet"
           /\ bullet.position = bullet.startPosition
           /\ Before(k).units[bullet.unit].lastBulletEpoch = Before(k).epoch - 1

\* the number of ticks it takes to travel bulletRange at bulletSpeed per tick
TicksOfRange == (bulletRange * Scale) \div bulletSpeed

\* the bullet stands n advances from its startPosition
IsFlown(bullet, n) ==
    IF bullet.endPosition = bullet.startPosition
    THEN bullet.position = bullet.startPosition
    ELSE LET step == SpeedTimesNormalized(
                         VSub(bullet.endPosition, bullet.startPosition))
         IN bullet.position
               = VAdd(bullet.startPosition, <<n * step[1], n * step[2]>>)

\* the number of advances the bullet has made
Flown(bullet) == CHOOSE n \in 0..TicksOfRange : IsFlown(bullet, n)

\* in the last tick every bullet the list held before it had its MoveBulletCommand,
\* which destroyed it where it stood or advanced it once
EveryBulletMoved ==
    \A b \in 1..Len(Before(1).bullets) :
        \E k \in Steps :
            /\ ran.commands[k].type = "MoveBullet"
            /\ ran.commands[k].bullet = b
            /\ \/ /\ After(k).bullets[b].status = "destroyed"
                  /\ After(k).bullets[b].position = Before(k).bullets[b].position
               \/ /\ After(k).bullets[b].status = "alive"
                  /\ Before(k).bullets[b].status = "alive"
                  /\ Flown(Before(k).bullets[b]) < TicksOfRange
                  /\ Flown(After(k).bullets[b]) = Flown(Before(k).bullets[b]) + 1

(* C26, as the claim states it: a bullet is destroyed and removed at the latest
   in the tick TicksOfRange ticks after the one that created it: in every tick
   of a game that is not over each bullet of the list is advanced once or
   destroyed, the destroyed ones are removed, and no bullet left in the list
   has made TicksOfRange advances.                                          *)
C26_RemovedWithinRangeTicks ==
    /\ \A g \in Games :
        \A b \in 1..Len(g.bullets) : \E n \in 0..TicksOfRange : IsFlown(g.bullets[b], n)
    /\ (lastOp = "updated" /\ ~Before(1).gameOver) => EveryBulletMoved
    /\ \A b \in 1..Len(game.bullets) :
        /\ game.bullets[b].status = "alive"
        /\ Flown(game.bullets[b]) < TicksOfRange

(* C26, amended: in every tick of a game that is not over each bullet of the
   list is advanced once or destroyed, the destroyed ones are removed, and
   no bullet has made more than TicksOfRange advances: a bullet is destroyed
   and removed at the latest in the tick TicksOfRange + 1 ticks after the one
   that created it.                                                         *)
C26_RemovedOneTickAfterRangeTicks ==
    /\ \A g \in Games :
        \A b \in 1..Len(g.bullets) : \E n \in 0..TicksOfRange : IsFlown(g.bullets[b], n)
    /\ (lastOp = "updated" /\ ~Before(1).gameOver) => EveryBulletMoved
    /\ \A b \in 1..Len(game.bullets) : game.bullets[b].status = "alive"

\* C26's case: a bullet that had made TicksOfRange advances and was still short of
\* bulletRange was destroyed by its next MoveBulletCommand and removed from the list
C26_Witness ==
    /\ lastOp = "updated"
    /\ \E k \in Steps :
        /\ MovesBullet(k) /\ OutOfRange(k)
        /\ Before(k).bullets[ran.commands[k].bullet].status = "alive"
        /\ Flown(Before(k).bullets[ran.commands[k].bullet]) = TicksOfRange
        /\ After(k).bullets[ran.commands[k].bullet].status = "destroyed"
        /\ \A b \in 1..Len(game.bullets) :
            game.bullets[b].startPosition # game.bullets[b].position
            => Flown(game.bullets[b]) < TicksOfRange

\* a bullet whose advance number TicksOfRange reaches bulletRange was destroyed by it
C26_RemovedInLastRangeTick ==
    /\ lastOp = "updated"
    /\ \E k \in Steps :
        /\ MovesBullet(k) /\ OutOfRange(k)
        /\ Flown(Before(k).bullets[ran.commands[k].bullet]) = TicksOfRange - 1
        /\ After(k).bullets[ran.commands[k].bullet].status = "destroyed"

\* a bullet is in the list after TicksOfRange advances
C26_AliveAfterRangeTicks ==
    /\ lastOp = "updated"
    /\ \E b \in 1..Len(game.bullets) :
        /\ game.bullets[b].status = "alive"
        /\ Flown(game.bullets[b]) = TicksOfRange

====
